---------------------------- MODULE Spec2Model ----------------------------
(***************************************************************************)
(* Model of the unified multi-format import pipeline of the antique        *)
(* bookshop application (src/book_shop_here/unified_import.py).            *)
(*                                                                         *)
(* Python text is modelled by TLA+ strings, with the operators Len,        *)
(* SubSeq and \o.  A Python dict is a function on its keys; a list is a    *)
(* sequence.  A cell or field value is one of                              *)
(*     [str |-> s]     a text                                              *)
(*     [nan |-> TRUE]  the missing-value marker of the tabular reader      *)
(*     [dict |-> d]    a nested record (markup-tree input only)            *)
(* so that a text can never be mistaken for the marker.                    *)
(***************************************************************************)
EXTENDS Integers, Sequences, FiniteSets, TLC

(***************************************************************************)
(* Bounds of the model.                                                    *)
(***************************************************************************)
\* Largest number of sheets of an uploaded workbook.
MaxSheets == 3
\* Largest number of bytes of a generated delimited-text upload.
MaxBytes == 3

(***************************************************************************)
(* Python str operations.                                                  *)
(***************************************************************************)
Char(s, i) == SubSeq(s, i, i)

UpperChars == "ABCDEFGHIJKLMNOPQRSTUVWXYZ"
LowerChars == "abcdefghijklmnopqrstuvwxyz"

\* str.lower() on one character (ASCII letters; the inputs hold no other
\* cased character).
LowerChar(c) ==
    IF \E i \in 1..Len(UpperChars) : Char(UpperChars, i) = c
    THEN Char(LowerChars, CHOOSE i \in 1..Len(UpperChars) : Char(UpperChars, i) = c)
    ELSE c

\* The concatenation of the strings seq[lo], ..., seq[hi].
RECURSIVE JoinStr(_, _, _)
JoinStr(seq, lo, hi) ==
    IF lo > hi THEN ""
    ELSE IF lo = hi THEN seq[lo]
    ELSE LET mid == (lo + hi) \div 2
         IN  JoinStr(seq, lo, mid) \o JoinStr(seq, mid + 1, hi)

\* The concatenation of the sequences seq[lo], ..., seq[hi].
RECURSIVE JoinSeq(_, _, _)
JoinSeq(seq, lo, hi) ==
    IF lo > hi THEN <<>>
    ELSE IF lo = hi THEN seq[lo]
    ELSE LET mid == (lo + hi) \div 2
         IN  JoinSeq(seq, lo, mid) \o JoinSeq(seq, mid + 1, hi)

\* s.lower()
Lower(s) == JoinStr([i \in 1..Len(s) |-> LowerChar(Char(s, i))], 1, Len(s))

\* s.endswith(suffix)
EndsWith(s, suffix) ==
    /\ Len(suffix) <= Len(s)
    /\ SubSeq(s, Len(s) - Len(suffix) + 1, Len(s)) = suffix

\* sub in s
Contains(s, sub) ==
    \E i \in 1..(Len(s) - Len(sub) + 1) : SubSeq(s, i, i + Len(sub) - 1) = sub

Whitespace == {" ", "\t", "\n", "\r"}

\* s.strip()
Strip(s) ==
    LET inked == {i \in 1..Len(s) : Char(s, i) \notin Whitespace}
    IN  IF inked = {} THEN ""
        ELSE SubSeq(s, CHOOSE i \in inked : \A j \in inked : i <= j,
                       CHOOSE i \in inked : \A j \in inked : j <= i)

\* s.replace(a, b) for a single character a
Replace(s, a, b) ==
    JoinStr([i \in 1..Len(s) |-> IF Char(s, i) = a THEN b ELSE Char(s, i)], 1, Len(s))

\* s.count(c) for a single character c
Count(s, c) == Cardinality({i \in 1..Len(s) : Char(s, i) = c})

\* s.split(d) for a single character d: the fields between the separators.
Split(s, d) ==
    LET seps   == {i \in 1..Len(s) : Char(s, i) = d}
        \* the position of the k-th separator; 0 and Len(s) + 1 bound the text
        Sep(k) == IF k = 0 THEN 0
                  ELSE IF k > Cardinality(seps) THEN Len(s) + 1
                  ELSE CHOOSE p \in seps : Cardinality({q \in seps : q < p}) = k - 1
    IN  [k \in 1..(Cardinality(seps) + 1) |-> SubSeq(s, Sep(k - 1) + 1, Sep(k) - 1)]

\* The elements of a sequence.
Range(seq) == {seq[i] : i \in 1..Len(seq)}

\* The sequences over S of length at most n.
SeqsUpTo(S, n) == UNION {[1..k -> S] : k \in 0..n}

\* Python's None where the other values are names of a closed set.
None == "<None>"

\* Python's None where the other values are tagged records.
NoneValue == [none |-> TRUE]

(***************************************************************************)
(* Format detection (UnifiedImportHandler._detect_file_type).              *)
(***************************************************************************)
\* The class attribute SUPPORTED_FORMATS, in the declaration (iteration) order
\* of the dict.
SUPPORTED_FORMATS ==
    << [fmt |-> "xlsx",
        types |-> << "application/vnd.openxmlformats-officedocument.spreadsheetml.sheet",
                     "application/octet-stream" >>],
       [fmt |-> "xls", types |-> << "application/vnd.ms-excel" >>],
       [fmt |-> "csv", types |-> << "text/csv", "application/csv", "text/plain" >>],
       [fmt |-> "xml", types |-> << "text/xml", "application/xml" >>] >>

\* any(t in content_type for t in types)
AnyTypeIn(types, content_type) ==
    \E j \in 1..Len(types) : Contains(content_type, types[j])

\* for fmt, types in SUPPORTED_FORMATS.items(): the first format that has a
\* known MIME string inside the content type, None when there is none.
_content_type_fallback(content_type) ==
    IF \E k \in 1..Len(SUPPORTED_FORMATS) :
           AnyTypeIn(SUPPORTED_FORMATS[k].types, content_type)
    THEN SUPPORTED_FORMATS[
             CHOOSE k \in 1..Len(SUPPORTED_FORMATS) :
                 /\ AnyTypeIn(SUPPORTED_FORMATS[k].types, content_type)
                 /\ \A m \in 1..(k - 1) :
                        ~AnyTypeIn(SUPPORTED_FORMATS[m].types, content_type)].fmt
    ELSE None

\* The mutant of the detection: the content type is consulted before the
\* extension.
_detect_file_type_content_first(name, content_type) ==
    LET filename == Lower(name)
        by_type  == _content_type_fallback(Lower(content_type))
    IN  IF by_type # None THEN by_type
        ELSE IF EndsWith(filename, ".xlsx") THEN "xlsx"
        ELSE IF EndsWith(filename, ".xls") THEN "xls"
        ELSE IF EndsWith(filename, ".csv") THEN "csv"
        ELSE IF EndsWith(filename, ".xml") THEN "xml"
        ELSE None

_detect_file_type(name, content_type) ==
    LET filename == Lower(name)
    IN  IF EndsWith(filename, ".xlsx") THEN "xlsx"
        ELSE IF EndsWith(filename, ".xls") THEN "xls"
        ELSE IF EndsWith(filename, ".csv") THEN "csv"
        ELSE IF EndsWith(filename, ".xml") THEN "xml"
        ELSE _content_type_fallback(Lower(content_type))

(***************************************************************************)
(* Record-type classification.                                             *)
(***************************************************************************)
\* The five domain types, in declaration order.
DomainTypes == << "author", "book", "customer", "employee", "order" >>

\* patterns of _detect_sheet_type, in the declaration order of the dict.
patterns ==
    << [type |-> "author",
        cols |-> << "last_name", "first_name", "birth_year", "death_year" >>],
       [type |-> "book",
        cols |-> << "title", "cost", "suggested_retail_price", "condition" >>],
       [type |-> "customer",
        cols |-> << "first_name", "last_name", "phone_number", "mailing_address" >>],
       [type |-> "employee",
        cols |-> << "first_name", "last_name", "phone_number", "address", "group" >>],
       [type |-> "order",
        cols |-> << "customer", "employee", "sale_amount", "payment_method" >>] >>

\* [col.lower() for col in df.columns]
LowerAll(columns) == [i \in 1..Len(columns) |-> Lower(columns[i])]

\* sum(1 for col in required_cols if any(col in df_col for df_col in columns))
_sheet_score(required_cols, columns) ==
    Cardinality({j \in 1..Len(required_cols) :
                    \E i \in 1..Len(columns) : Contains(columns[i], required_cols[j])})

\* scores[k] > scores[m], the scores being score / len(required_cols).
ScoreGreater(k, m, columns) ==
    _sheet_score(patterns[k].cols, columns) * Len(patterns[m].cols)
        > _sheet_score(patterns[m].cols, columns) * Len(patterns[k].cols)

\* The mutant of the choice: the first scored pattern instead of the best.
_best_pattern_first_scored(columns) ==
    LET scored == {k \in 1..Len(patterns) : _sheet_score(patterns[k].cols, columns) > 0}
    IN  IF scored = {} THEN 0 ELSE CHOOSE k \in scored : \A m \in scored : k <= m

\* The choice with the ties going to the last pattern of the greatest score.
_best_pattern_last_tied(columns) ==
    LET scored == {k \in 1..Len(patterns) : _sheet_score(patterns[k].cols, columns) > 0}
    IN  IF scored = {} THEN 0
        ELSE CHOOSE k \in scored :
                 /\ \A m \in scored : ~ScoreGreater(m, k, columns)
                 /\ \A m \in scored : m > k => ScoreGreater(k, m, columns)

\* max(scores, key=...): the index of the first pattern of the greatest
\* score among those with a score above 0; 0 when scores is empty.
_best_pattern(columns) ==
    LET scored == {k \in 1..Len(patterns) : _sheet_score(patterns[k].cols, columns) > 0}
    IN  IF scored = {} THEN 0
        ELSE CHOOSE k \in scored :
                 /\ \A m \in scored : ~ScoreGreater(m, k, columns)
                 /\ \A m \in scored : m < k => ScoreGreater(k, m, columns)

_detect_sheet_type(df_columns) ==
    LET columns == LowerAll(df_columns)
        best    == _best_pattern(columns)
    IN  IF best = 0 THEN None ELSE patterns[best].type

\* confidence = scores[best_type], as the pair <<score, len(required_cols)>>;
\* <<0, 1>> when no type was scored.
_sheet_confidence(df_columns) ==
    LET columns == LowerAll(df_columns)
        best    == _best_pattern(columns)
    IN  IF best = 0 THEN <<0, 1>>
        ELSE << _sheet_score(patterns[best].cols, columns), Len(patterns[best].cols) >>

\* x in columns
InList(x, columns) == \E i \in 1..Len(columns) : columns[i] = x

\* any(a in col or b in col ... for col in columns)
AnyColHas(columns, subs) ==
    \E i \in 1..Len(columns) : \E sub \in subs : Contains(columns[i], sub)

B2N(b) == IF b THEN 1 ELSE 0

\* type_scores of _detect_csv_type after all the signals were added.
_csv_type_scores(columns) ==
    LET names == InList("last_name", columns) /\ InList("first_name", columns)
        born  == InList("birth_year", columns) \/ InList("death_year", columns)
        hired == InList("hire_date", columns)
        mail  == InList("mailing_address", columns)
    IN  [t \in Range(DomainTypes) |->
           CASE t = "author" ->
                    2 * B2N(AnyColHas(columns, {"author", "birth", "death"}))
                  + 3 * B2N(names /\ born)
             [] t = "book" ->
                    2 * B2N(AnyColHas(columns, {"title", "isbn", "publisher"}))
                  + 3 * B2N(InList("title", columns)
                            /\ (InList("cost", columns) \/ InList("price", columns)))
             [] t = "customer" ->
                    2 * B2N(AnyColHas(columns, {"customer"}))
                  + 3 * B2N(names /\ ~born /\ ~hired /\ mail)
             [] t = "employee" ->
                    4 * B2N(InList("hire_date", columns) \/ InList("group", columns))
                  + 2 * B2N(InList("employee", columns)
                            /\ (InList("hire_date", columns) \/ InList("group", columns)
                                \/ InList("email", columns)))
                  + 3 * B2N(names /\ ~born /\ hired)
             [] t = "order" ->
                    5 * B2N(InList("payment_method", columns)
                            \/ InList("sale_amount", columns))
                  + 2 * B2N(AnyColHas(columns, {"order", "payment"}))]

\* The names _detect_csv_type scores by: every signal needs a column that
\* is, or holds, one of them.
CsvSignatureWords ==
    { "payment_method", "sale_amount", "hire_date", "group", "author", "birth",
      "death", "title", "isbn", "publisher", "customer", "employee", "order",
      "payment", "mailing_address" }

\* max(type_scores, key=...): the first type of the greatest score, returned
\* when that score is above 0.
_detect_csv_type(df_columns) ==
    LET columns  == LowerAll(df_columns)
        scores   == _csv_type_scores(columns)
        max_idx  == CHOOSE k \in 1..Len(DomainTypes) :
                        /\ \A m \in 1..Len(DomainTypes) :
                               scores[DomainTypes[m]] <= scores[DomainTypes[k]]
                        /\ \A m \in 1..(k - 1) :
                               scores[DomainTypes[m]] < scores[DomainTypes[k]]
    IN  IF scores[DomainTypes[max_idx]] > 0 THEN DomainTypes[max_idx] ELSE None

(***************************************************************************)
(* Tables (pandas DataFrame): [columns |-> <<name, ...>>, rows |-> <<row>>], *)
(* a row being the sequence of its cell values, one per column.            *)
(***************************************************************************)
Str(s) == [str |-> s]
NaN == [nan |-> TRUE]
IsStr(v) == DOMAIN v = {"str"}
IsNaN(v) == DOMAIN v = {"nan"}

\* The texts the tabular reader of pandas takes for a missing value
\* (its default na_values).
STR_NA_VALUES ==
    { "", "#N/A", "#N/A N/A", "#NA", "-1.#IND", "-1.#QNAN", "-NaN", "-nan",
      "1.#IND", "1.#QNAN", "<NA>", "N/A", "NA", "NULL", "NaN", "None", "n/a",
      "nan", "null" }

\* A cell as the reader delivers it.
ReadCell(v) == IF IsStr(v) /\ v.str \in STR_NA_VALUES THEN NaN ELSE v

MapCells(df, F(_)) ==
    [columns |-> df.columns,
     rows    |-> [r \in 1..Len(df.rows) |->
                     [c \in 1..Len(df.rows[r]) |-> F(df.rows[r][c])]]]

\* df.empty: no row, or no column.
Empty(df) == Len(df.rows) = 0 \/ Len(df.columns) = 0

\* str(col).strip().lower().replace(" ", "_")
CleanColumn(col) == Replace(Lower(Strip(col)), " ", "_")

CleanColumns(df) ==
    [columns |-> [i \in 1..Len(df.columns) |-> CleanColumn(df.columns[i])],
     rows    |-> df.rows]

\* df.fillna("")
FillCell(v) == IF IsNaN(v) THEN Str("") ELSE v
fillna(df) == MapCells(df, FillCell)

\* The null tokens the workbook parser replaces.
ExcelNullTokens == {"nan", "NaN", "null", "NULL", "None"}
\* The null tokens the delimited-text parser replaces.
CsvNullTokens == {"nan", "NaN", "null", "NULL", "None", "N/A"}

\* df.replace(tokens, "")
replace(df, tokens) ==
    LET F(v) == IF IsStr(v) /\ v.str \in tokens THEN Str("") ELSE v
    IN  MapCells(df, F)

\* df.to_dict("records"): one dict per row, keyed by the column names (the
\* last column of a name wins).
to_dict_records(df) ==
    [r \in 1..Len(df.rows) |->
        [c \in Range(df.columns) |->
            df.rows[r][CHOOSE i \in 1..Len(df.columns) :
                           /\ df.columns[i] = c
                           /\ \A j \in (i + 1)..Len(df.columns) : df.columns[j] # c]]]

(***************************************************************************)
(* Workbook parser (UnifiedImportHandler._parse_excel).                    *)
(*                                                                         *)
(* A sheet of an uploaded workbook is                                      *)
(*   [name, error, columns, rows]: reading it raises Exception(error) when *)
(* error is not None, and yields the table otherwise.  Sheet names are     *)
(* unique within a workbook.                                               *)
(***************************************************************************)
\* pd.read_excel(xl_file, sheet_name=sheet_name)
read_excel(sheet) ==
    MapCells([columns |-> sheet.columns, rows |-> sheet.rows], ReadCell)

\* The mutant of the per-sheet handler: the first failing sheet ends the loop.
_read_sheet_stops_at_error(sheet, st) ==
    IF st.errors # <<>> THEN st
    ELSE IF sheet.error # None
    THEN [st EXCEPT !.errors =
              Append(@, "Error parsing sheet '" \o sheet.name \o "': " \o sheet.error)]
    ELSE LET df == read_excel(sheet)
         IN  IF Empty(df) THEN st
             ELSE [st EXCEPT !.sheets_data =
                       Append(@, [name |-> sheet.name,
                                  df   |-> replace(fillna(CleanColumns(df)),
                                                   ExcelNullTokens)])]

\* One iteration of the first loop: the body of `for sheet_name in
\* xl_file.sheet_names`, with its try/except.
_read_sheet(sheet, st) ==
    IF sheet.error # None
    THEN [st EXCEPT !.errors =
              Append(@, "Error parsing sheet '" \o sheet.name \o "': " \o sheet.error)]
    ELSE LET df == read_excel(sheet)
         IN  IF Empty(df) THEN st
             ELSE [st EXCEPT !.sheets_data =
                       Append(@, [name |-> sheet.name,
                                  df   |-> replace(fillna(CleanColumns(df)),
                                                   ExcelNullTokens)])]

RECURSIVE _read_sheets(_, _, _)
_read_sheets(sheets, i, st) ==
    IF i > Len(sheets) THEN st ELSE _read_sheets(sheets, i + 1, _read_sheet(sheets[i], st))

\* data_by_type.setdefault(detected_type, []).extend(records)
Extend(data_by_type, type, records) ==
    IF type \in DOMAIN data_by_type
    THEN [data_by_type EXCEPT ![type] = @ \o records]
    ELSE data_by_type @@ (type :> records)

\* The mutant of the merge: a later sheet of a type replaces the earlier one.
_group_sheet_overwrites(entry, st) ==
    LET detected_type == _detect_sheet_type(entry.df.columns)
        sheet_info    == [name    |-> entry.name,
                          type    |-> detected_type,
                          rows    |-> Len(entry.df.rows),
                          columns |-> entry.df.columns]
    IN  [sheets_info  |-> Append(st.sheets_info, sheet_info),
         data_by_type |->
             IF detected_type # None
             THEN [t \in DOMAIN st.data_by_type \cup {detected_type} |->
                      IF t = detected_type THEN to_dict_records(entry.df)
                      ELSE st.data_by_type[t]]
             ELSE st.data_by_type]

\* The mutant of the type test: an unclassified sheet is grouped under None.
_group_sheet_keeps_unclassified(entry, st) ==
    LET detected_type == _detect_sheet_type(entry.df.columns)
        sheet_info    == [name    |-> entry.name,
                          type    |-> detected_type,
                          rows    |-> Len(entry.df.rows),
                          columns |-> entry.df.columns]
    IN  [sheets_info  |-> Append(st.sheets_info, sheet_info),
         data_by_type |->
             Extend(st.data_by_type, detected_type, to_dict_records(entry.df))]

\* One iteration of the second loop: the body of `for sheet_name, df in
\* sheets_data.items()`.
_group_sheet(entry, st) ==
    LET detected_type == _detect_sheet_type(entry.df.columns)
        sheet_info    == [name    |-> entry.name,
                          type    |-> detected_type,
                          rows    |-> Len(entry.df.rows),
                          columns |-> entry.df.columns]
    IN  [sheets_info  |-> Append(st.sheets_info, sheet_info),
         data_by_type |->
             IF detected_type # None
             THEN Extend(st.data_by_type, detected_type, to_dict_records(entry.df))
             ELSE st.data_by_type]

RECURSIVE _group_sheets(_, _, _)
_group_sheets(sheets_data, i, st) ==
    IF i > Len(sheets_data) THEN st
    ELSE _group_sheets(sheets_data, i + 1, _group_sheet(sheets_data[i], st))

\* The empty dict.
EmptyDict == [k \in {} |-> <<>>]

\* What a parser hands back: the returned mapping and self.errors after it.
Outcome(value, errors) == [value |-> value, errors |-> errors]

\* The mutant of the handlers: the message is returned and not recorded.
Failed_unrecorded(prefix, e, errors) == Outcome([error |-> prefix \o e], errors)

\* The `except Exception as e` of a parser: the message is recorded in
\* self.errors and returned as {"error": message}.
Failed(prefix, e, errors) ==
    Outcome([error |-> prefix \o e], Append(errors, prefix \o e))

\* _parse_excel on the body of the upload; self.errors is `errors` before.
_parse_excel(body, errors) ==
    IF body.open_error # None
    THEN Failed("Error parsing Excel file: ", body.open_error, errors)
    ELSE LET read    == _read_sheets(body.sheets, 1,
                                     [sheets_data |-> <<>>, errors |-> errors])
             grouped == _group_sheets(read.sheets_data, 1,
                                      [sheets_info |-> <<>>, data_by_type |-> EmptyDict])
         IN  Outcome([sheets_info  |-> grouped.sheets_info,
                      data_by_type |-> grouped.data_by_type,
                      errors       |-> read.errors],
                     read.errors)

(***************************************************************************)
(* Bytes and codecs.  A byte string is a sequence of numbers 0..255.       *)
(*                                                                         *)
(* The characters of the model are the ASCII characters of AsciiChars,     *)
(* the controls \t \n \r, and three characters beyond ASCII, which the     *)
(* module writes with ASCII stand-ins so that it reads the same under any  *)
(* locale:  "^" is U+00FC (u umlaut), "|" is U+00C3, "~" is U+00BC.  The   *)
(* bytes 94, 124 and 126 (the ASCII value of the stand-ins) are outside    *)
(* the repertoire of the uploads.                                          *)
(***************************************************************************)
\* The characters of code 32 to 125 except 94, 96 and 124, in code order.
AsciiChars ==
    " !\"#$%&'()*+,-./0123456789:;<=>?@ABCDEFGHIJKLMNOPQRSTUVWXYZ[\\]_abcdefghijklmnopqrstuvwxyz{}"

\* The code of the i-th character of AsciiChars.
AsciiCode(i) ==
    IF i <= 62 THEN 31 + i ELSE IF i = 63 THEN 95 ELSE IF i <= 90 THEN 33 + i ELSE 125

\* The other characters of the repertoire, with their code points.
OtherChars ==
    << [cp |-> 9, ch |-> "\t"], [cp |-> 10, ch |-> "\n"], [cp |-> 13, ch |-> "\r"],
       [cp |-> 252, ch |-> "^"], [cp |-> 195, ch |-> "|"], [cp |-> 188, ch |-> "~"] >>

\* ord(c)
Ord(c) ==
    IF \E i \in 1..Len(OtherChars) : OtherChars[i].ch = c
    THEN OtherChars[CHOOSE i \in 1..Len(OtherChars) : OtherChars[i].ch = c].cp
    ELSE AsciiCode(CHOOSE i \in 1..Len(AsciiChars) : Char(AsciiChars, i) = c)

\* chr(cp)
Chr(cp) ==
    IF \E i \in 1..Len(OtherChars) : OtherChars[i].cp = cp
    THEN OtherChars[CHOOSE i \in 1..Len(OtherChars) : OtherChars[i].cp = cp].ch
    ELSE Char(AsciiChars, CHOOSE i \in 1..Len(AsciiChars) : AsciiCode(i) = cp)

\* text.encode(encoding), for the code points below 2048.
encode(text, encoding) ==
    LET Bytes(cp) == IF encoding = "utf-8" /\ cp >= 128
                     THEN << 192 + (cp \div 64), 128 + (cp % 64) >>
                     ELSE << cp >>
    IN  JoinSeq([i \in 1..Len(text) |-> Bytes(Ord(Char(text, i)))], 1, Len(text))

\* The result of a decoding: the text, or the UnicodeDecodeError.
Decoded(text) == [ok |-> TRUE, text |-> text]
DecodeError == [ok |-> FALSE, text |-> ""]

IsContinuation(b) == b >= 128 /\ b <= 191

IsLead2(b) == b >= 194 /\ b <= 223

\* bytes.decode("utf-8"): one-byte and two-byte sequences (the uploads hold
\* no lead byte of a longer sequence).  A lead byte is never a continuation
\* byte, so a continuation byte is in place exactly when a lead byte is
\* before it; a stray continuation byte, a lead byte without its
\* continuation, and a byte that is neither are errors.
decode_utf8(content) ==
    LET n == Len(content)
        Valid(i) ==
            LET b == content[i]
            IN  \/ b < 128
                \/ IsLead2(b) /\ i < n /\ IsContinuation(content[i + 1])
                \/ IsContinuation(b) /\ i > 1 /\ IsLead2(content[i - 1])
        At(i) ==
            LET b == content[i]
            IN  IF b < 128 THEN Chr(b)
                ELSE IF IsLead2(b) THEN Chr((b - 192) * 64 + (content[i + 1] - 128))
                ELSE ""
    IN  IF \A i \in 1..n : Valid(i)
        THEN Decoded(JoinStr([i \in 1..n |-> At(i)], 1, n))
        ELSE DecodeError

\* bytes.decode("latin-1") and bytes.decode("iso-8859-1"): every byte is the
\* character of its own code.
decode_latin1(content) ==
    JoinStr([i \in 1..Len(content) |-> Chr(content[i])], 1, Len(content))

\* The bytes cp1252 leaves undefined.
Cp1252Undefined == {129, 141, 143, 144, 157}

\* bytes.decode(encoding); cp1252 agrees with latin-1 outside 128..159, and
\* the uploads hold no byte of 128..159 that cp1252 defines.
decode(content, encoding) ==
    CASE encoding = "utf-8" -> decode_utf8(content)
      [] encoding \in {"latin-1", "iso-8859-1"} -> Decoded(decode_latin1(content))
      [] encoding = "cp1252" ->
             IF \E i \in 1..Len(content) : content[i] \in Cp1252Undefined
             THEN DecodeError
             ELSE Decoded(decode_latin1(content))

\* encodings of _parse_csv.
encodings == << "utf-8", "latin-1", "iso-8859-1", "cp1252" >>

\* The loop `for encoding in encodings`: decoded_content, as Str(text), or NaN
\* for the None it keeps when no codec decodes the bytes.
_decode_content(content) ==
    IF \E k \in 1..Len(encodings) : decode(content, encodings[k]).ok
    THEN Str(decode(content,
                    encodings[CHOOSE k \in 1..Len(encodings) :
                                  /\ decode(content, encodings[k]).ok
                                  /\ \A m \in 1..(k - 1) :
                                         ~decode(content, encodings[m]).ok]).text)
    ELSE NaN

(***************************************************************************)
(* Delimited-text parser (UnifiedImportHandler._parse_csv).                *)
(* The uploads hold no quote and no escape character, and end their lines  *)
(* with \n.                                                                *)
(***************************************************************************)
\* text.splitlines()
SplitLines(text) ==
    LET parts == Split(text, "\n")
    IN  IF parts[Len(parts)] = "" THEN SubSeq(parts, 1, Len(parts) - 1) ELSE parts

\* sample = decoded_content[:1024]
SampleLen == 1024
Sample(text) == SubSeq(text, 1, IF Len(text) < SampleLen THEN Len(text) ELSE SampleLen)

\* The delimiters csv.Sniffer may settle on.
Delimiters == {",", ";", "\t", " ", ":"}

\* What sniffer.sniff(sample) may do: raise csv.Error ("fail"), or name a
\* delimiter that occurs in the sample.
SniffOutcomes(sample) == {"fail"} \cup {d \in Delimiters : Contains(sample, d)}

\* The mutant of the override: a tie of semicolons and commas also gives ';'.
_header_override_on_tie(header_line, delimiter) ==
    IF Count(header_line, ";") >= Count(header_line, ",") THEN ";" ELSE delimiter

\* "Override if header suggests semicolons": ';' when the header line holds
\* more semicolons than commas.
_header_override(header_line, delimiter) ==
    IF Count(header_line, ";") > Count(header_line, ",") THEN ";" ELSE delimiter

\* The delimiter _parse_csv reads the text with, given what the sniffer did:
\* ',' when it raised, what it named otherwise, and the override on that.
_choose_delimiter(decoded_content, sniffed) ==
    _header_override(IF decoded_content # "" THEN SplitLines(decoded_content)[1] ELSE "",
                     IF sniffed = "fail" THEN "," ELSE sniffed)

\* A table, or the exception raised instead of it.
Table(df) == [ok |-> TRUE, df |-> df, error |-> ""]
Raised(e) == [ok |-> FALSE, df |-> [columns |-> <<>>, rows |-> <<>>], error |-> e]

\* A line the reader does not skip: one that is not blank.
NonBlank(line) == Strip(line) # ""

\* The name pandas gives the i-th column of a header: "Unnamed: i-1" for an
\* empty name, and a ".k" suffix for the k-th repetition of a name.
HeaderName(fields, i) ==
    LET k == Cardinality({j \in 1..(i - 1) : fields[j] = fields[i]})
    IN  IF fields[i] = "" THEN "Unnamed: " \o ToString(i - 1)
        ELSE IF k > 0 THEN fields[i] \o "." \o ToString(k)
        ELSE fields[i]

\* The table pd.read_csv makes of the header, the data rows and the number
\* of leading fields of a row that are its index: a short row is filled
\* with missing values, a row longer than index and header makes it raise.
_read_rows(header, data, index_len) ==
    IF \E i \in 1..Len(data) : Len(data[i]) > index_len + Len(header)
    THEN Raised("Expected " \o ToString(index_len + Len(header)) \o " fields")
    ELSE Table(
           [columns |-> [c \in 1..Len(header) |-> HeaderName(header, c)],
            rows    |-> [r \in 1..Len(data) |->
                           [c \in 1..Len(header) |->
                              IF index_len + c <= Len(data[r])
                              THEN ReadCell(Str(data[r][index_len + c]))
                              ELSE NaN]]])

\* The table pd.read_csv makes of the fields of the lines.  The first line
\* is the header.  The fields by which the first data row is longer than the
\* header are its index; and when the second data row is longer than the
\* first by the length of the header, the first data row is the line of the
\* index names and the data begin after it.
_read_fields(fields) ==
    IF Len(fields) >= 3 /\ Len(fields[3]) = Len(fields[2]) + Len(fields[1])
    THEN _read_rows(fields[1], SubSeq(fields, 3, Len(fields)), Len(fields[2]))
    ELSE IF Len(fields) >= 2 /\ Len(fields[2]) > Len(fields[1])
    THEN _read_rows(fields[1], Tail(fields), Len(fields[2]) - Len(fields[1]))
    ELSE _read_rows(fields[1], Tail(fields), 0)

\* pd.read_csv on the lines left after the blank ones were skipped: no line
\* at all makes it raise.
_read_lines(lines, delimiter) ==
    IF Len(lines) = 0 THEN Raised("No columns to parse from file")
    ELSE _read_fields([i \in 1..Len(lines) |-> Split(lines[i], delimiter)])

\* pd.read_csv(csv_file, delimiter=delimiter, engine="python", ...)
read_csv(text, delimiter) == _read_lines(SelectSeq(SplitLines(text), NonBlank), delimiter)

\* dict(zip(headers, r))[headers[c]]: the last pair of the key wins, and a
\* key no pair of the row holds is missing.
_zip_value(headers, r, c) ==
    IF \E j \in 1..Len(headers) : j <= Len(r) /\ headers[j] = headers[c]
    THEN Str(r[CHOOSE j \in 1..Len(headers) :
                  /\ j <= Len(r) /\ headers[j] = headers[c]
                  /\ \A m \in (j + 1)..Len(headers) :
                         ~(m <= Len(r) /\ headers[m] = headers[c])])
    ELSE NaN

\* pd.DataFrame(data) and df.columns = headers of the fallback: `keys` are
\* the keys some dict holds; the assignment raises when their number is not
\* the number of the headers.
_fallback_frame(headers, rows, keys) ==
    IF Cardinality(keys) # Len(headers)
    THEN Raised("Length mismatch: Expected axis has "
                \o ToString(Cardinality(keys)) \o " elements, new values have "
                \o ToString(Len(headers)) \o " elements")
    ELSE Table([columns |-> headers,
                rows    |-> [r \in 1..(Len(rows) - 1) |->
                               [c \in 1..Len(headers) |->
                                  _zip_value(headers, rows[r + 1], c)]]])

\* The keys of the dicts of the fallback: the headers some row reaches.
_fallback_keys(headers, rows) ==
    {headers[j] : j \in {m \in 1..Len(headers) : \E i \in 2..Len(rows) : m <= Len(rows[i])}}

_fallback_headers(headers, rows) ==
    _fallback_frame(headers, rows, _fallback_keys(headers, rows))

\* The fallback on the rows csv.reader yields: the first row is the headers.
_fallback_rows(rows) ==
    IF Len(rows) = 0 THEN Raised("Empty CSV file")
    ELSE _fallback_headers([j \in 1..Len(rows[1]) |-> Strip(rows[1][j])], rows)

\* The rows csv.reader yields for the lines: an empty list for an empty line.
_reader_rows(lines, delimiter) ==
    [i \in 1..Len(lines) |-> IF lines[i] = "" THEN <<>> ELSE Split(lines[i], delimiter)]

\* The fallback of _parse_csv: csv.reader, the first row as headers, one
\* dict(zip(headers, r)) per further row, pd.DataFrame of the dicts, and
\* df.columns = headers.
_csv_reader_fallback(text, delimiter) ==
    _fallback_rows(_reader_rows(SplitLines(text), delimiter))

\* What _parse_csv returns for the cleaned table and its detected type.
_csv_result(df, detected_type, errors) ==
    Outcome([sheets_info  |-> << [name    |-> "CSV Data",
                                  type    |-> detected_type,
                                  rows    |-> Len(df.rows),
                                  columns |-> df.columns] >>,
             data_by_type |-> IF detected_type # None
                              THEN detected_type :> to_dict_records(df)
                              ELSE EmptyDict,
             errors       |-> errors],
            errors)

\* detected_type = self._detect_csv_type(df.columns.tolist())
_csv_classified(df, errors) == _csv_result(df, _detect_csv_type(df.columns), errors)

\* _parse_csv from "Clean column names" to the return.
_csv_outcome(df0, errors) ==
    _csv_classified(replace(fillna(CleanColumns(df0)), CsvNullTokens), errors)

\* The end of the try block of _parse_csv: the table that was read, or the
\* exception of the fallback in the outer handler.
_csv_finish(read, errors) ==
    IF read.ok THEN _csv_outcome(read.df, errors)
    ELSE Failed("Error parsing CSV: ", read.error, errors)

\* try: pd.read_csv(...) except Exception: the csv.reader fallback
_csv_or_fallback(primary, text, delimiter) ==
    IF primary.ok THEN primary ELSE _csv_reader_fallback(text, delimiter)

\* _parse_csv on the decoded content: an empty one counts as not decoded.
_parse_decoded(decoded_content, sniffed, errors) ==
    IF IsNaN(decoded_content) \/ decoded_content.str = ""
    THEN Failed("Error parsing CSV: ",
                "Could not decode CSV file with common encodings", errors)
    ELSE _csv_finish(
             _csv_or_fallback(
                 read_csv(decoded_content.str,
                          _choose_delimiter(decoded_content.str, sniffed)),
                 decoded_content.str,
                 _choose_delimiter(decoded_content.str, sniffed)),
             errors)

\* _parse_csv on the bytes of the upload, the sniffer doing `sniffed`.
_parse_csv(content, sniffed, errors) ==
    _parse_decoded(_decode_content(content), sniffed, errors)

(***************************************************************************)
(* Markup-tree parser (UnifiedImportHandler._parse_xml).                   *)
(*                                                                         *)
(* An element (xml.etree.ElementTree.Element) is                           *)
(*   [tag, attrib, text, children]: attrib the sequence of its             *)
(* [key, val] pairs, text Str(..) or NaN for None, children a sequence of  *)
(* elements.                                                               *)
(***************************************************************************)
RECURSIVE Descendants(_)
\* The elements below an element, in document order.
Descendants(element) ==
    LET RECURSIVE From(_)
        From(i) ==
            IF i > Len(element.children) THEN <<>>
            ELSE << element.children[i] >> \o Descendants(element.children[i])
                 \o From(i + 1)
    IN  From(1)

\* element.findall(tag): the children of that tag.
ChildrenTagged(element, tag) ==
    LET Is(e) == e.tag = tag IN SelectSeq(element.children, Is)

\* root.findall(".//tag"): the elements of that tag below the root.
DescendantsTagged(root, tag) ==
    LET Is(e) == e.tag = tag IN SelectSeq(Descendants(root), Is)

\* key.lower().replace("-", "_")
FieldKey(name) == Replace(Lower(name), "-", "_")

\* The null-like texts of the per-field rule.
XmlNullTokens == {"null", "none", "nil"}

\* "Clean the value" of _xml_element_to_dict, for a text value.
_clean_field_text(text) ==
    IF Lower(Strip(text)) \in XmlNullTokens THEN Str("") ELSE Str(Strip(text))

\* The index of the last occurrence of key k in a sequence of keys.
LastIndex(keys, k) ==
    CHOOSE i \in 1..Len(keys) : keys[i] = k /\ \A j \in (i + 1)..Len(keys) : keys[j] # k

\* The keys of the attributes and of the children of an element, in the
\* order _xml_element_to_dict inserts them.
AttrKeys(element) == [i \in 1..Len(element.attrib) |-> FieldKey(element.attrib[i].key)]
ChildKeys(element) == [i \in 1..Len(element.children) |-> FieldKey(element.children[i].tag)]

\* The dict _xml_element_to_dict hands back, from the dict of the attributes
\* and children: the text of the element under "value" when that dict is empty.
TextOrResult(element, result) ==
    IF DOMAIN result = {} /\ IsStr(element.text) /\ element.text.str # ""
    THEN [value |-> Str(Strip(element.text.str))]
    ELSE result

RECURSIVE _xml_element_to_dict(_)
RECURSIVE ChildValue(_)
\* The value of one child field: a nested dict, or the cleaned text.
ChildValue(child) ==
    IF Len(child.children) > 0 THEN [dict |-> _xml_element_to_dict(child)]
    ELSE _clean_field_text(IF IsStr(child.text) THEN child.text.str ELSE "")

\* The dict of the attributes and children: a later key overwrites an
\* earlier one, a child overwrites an attribute.
ElementDict(element, attr_keys, child_keys) ==
    [k \in Range(attr_keys) \cup Range(child_keys) |->
        IF k \in Range(child_keys)
        THEN ChildValue(element.children[LastIndex(child_keys, k)])
        ELSE Str(element.attrib[LastIndex(attr_keys, k)].val)]

_xml_element_to_dict(element) ==
    TextOrResult(element, ElementDict(element, AttrKeys(element), ChildKeys(element)))

\* list(record.keys()) of the record of an element: the keys in the order of
\* their first insertion.
RECURSIVE FirstOccurrences(_, _)
FirstOccurrences(all, i) ==
    IF i > Len(all) THEN <<>>
    ELSE (IF \A j \in 1..(i - 1) : all[j] # all[i] THEN << all[i] >> ELSE <<>>)
             \o FirstOccurrences(all, i + 1)

RecordKeysOf(element, all) ==
    IF Len(all) = 0 /\ IsStr(element.text) /\ element.text.str # ""
    THEN << "value" >>
    ELSE FirstOccurrences(all, 1)

RecordKeys(element) == RecordKeysOf(element, AttrKeys(element) \o ChildKeys(element))

\* The records of a sequence of elements, the empty ones left out, each with
\* the list of its keys.
HasFields(r) == DOMAIN r.record # {}
ElementRecords(elements) ==
    SelectSeq([i \in 1..Len(elements) |->
                  [record |-> _xml_element_to_dict(elements[i]),
                   keys   |-> RecordKeys(elements[i])]],
              HasFields)

\* _detect_xml_type
_detect_xml_type(tag0) ==
    LET tag == Lower(tag0)
    IN  IF Contains(tag, "book") THEN "book"
        ELSE IF Contains(tag, "author") THEN "author"
        ELSE IF Contains(tag, "customer") THEN "customer"
        ELSE IF Contains(tag, "employee") THEN "employee"
        ELSE IF Contains(tag, "order") THEN "order"
        ELSE "unknown"

\* _detect_record_type, on the set of the keys of the record.
_detect_record_type(fields) ==
    IF "title" \in fields /\ ("cost" \in fields \/ "price" \in fields) THEN "book"
    ELSE IF "birth_year" \in fields \/ "death_year" \in fields THEN "author"
    ELSE IF "hire_date" \in fields \/ "group" \in fields THEN "employee"
    ELSE IF "mailing_address" \in fields /\ ~(\E f \in fields : Contains(f, "customer"))
    THEN "customer"
    ELSE IF "sale_amount" \in fields \/ "payment_method" \in fields THEN "order"
    ELSE None

\* The plural container tags, in the order they are looked for.
plural_tags == << "books", "authors", "customers", "employees", "orders" >>

\* plural_tag[:-1]
Singular(plural_tag) == SubSeq(plural_tag, 1, Len(plural_tag) - 1)

\* The last non-empty entry of a sequence of record lists, <<>> when there
\* is none.
LastNonEmpty(lists) ==
    IF \A i \in 1..Len(lists) : Len(lists[i]) = 0 THEN <<>>
    ELSE lists[CHOOSE i \in 1..Len(lists) :
                   /\ Len(lists[i]) > 0
                   /\ \A j \in (i + 1)..Len(lists) : Len(lists[j]) = 0]

\* The records of each of a sequence of containers of a plural tag.
ContainerLists(elements, plural_tag) ==
    [i \in 1..Len(elements) |->
        ElementRecords(ChildrenTagged(elements[i], Singular(plural_tag)))]

\* Pattern 1 of _extract_xml_data for one plural tag: the records that
\* data_by_type[singular] holds after the containers of the tag were gone
\* through (each container with records overwrites the entry), <<>> when no
\* container set it.
_container_records(root, plural_tag) ==
    LastNonEmpty(ContainerLists(DescendantsTagged(root, plural_tag), plural_tag))

\* Patterns 2 and 3 of _extract_xml_data, from the lower-case tag of the
\* root and the records of its children.
_root_records(root_tag, records) ==
    IF \E t \in Range(DomainTypes) : Contains(root_tag, t)
    THEN IF Len(records) > 0 THEN _detect_xml_type(root_tag) :> records
         ELSE EmptyDict
    ELSE IF Len(records) > 0 /\ _detect_record_type(DOMAIN records[1].record) # None
    THEN _detect_record_type(DOMAIN records[1].record) :> records
    ELSE EmptyDict

\* The dict of the records by type, from the records of pattern 1 (one entry
\* for each plural tag) and the dict of patterns 2 and 3.
_extract_from(containers, other) ==
    IF \E k \in 1..Len(plural_tags) : Len(containers[k]) > 0
    THEN [t \in {Singular(plural_tags[k]) :
                    k \in {j \in 1..Len(plural_tags) : Len(containers[j]) > 0}} |->
             containers[CHOOSE k \in 1..Len(plural_tags) : Singular(plural_tags[k]) = t]]
    ELSE other

\* _extract_xml_data: the dict of the records by type.
_extract_xml_data(root) ==
    _extract_from([k \in 1..Len(plural_tags) |-> _container_records(root, plural_tags[k])],
                  _root_records(Lower(root.tag), ElementRecords(root.children)))

\* The order in which _extract_xml_data inserts the types.
XmlTypeOrder == << "book", "author", "customer", "employee", "order" >>

\* data_type.title() of a lower-case word.
Title(word) ==
    Char(UpperChars, CHOOSE i \in 1..Len(LowerChars) : Char(LowerChars, i) = Char(word, 1))
        \o SubSeq(word, 2, Len(word))

\* sheets_info of _parse_xml: one entry for each type of data_by_type.
RECURSIVE _xml_sheets_info(_, _)
_xml_sheets_info(data_by_type, k) ==
    IF k > Len(XmlTypeOrder) THEN <<>>
    ELSE (IF XmlTypeOrder[k] \in DOMAIN data_by_type
          THEN << [name    |-> "XML " \o Title(XmlTypeOrder[k]),
                   type    |-> XmlTypeOrder[k],
                   rows    |-> Len(data_by_type[XmlTypeOrder[k]]),
                   columns |-> data_by_type[XmlTypeOrder[k]][1].keys] >>
          ELSE <<>>) \o _xml_sheets_info(data_by_type, k + 1)

\* The result of _parse_xml, from the records by type.
_xml_outcome(data_by_type, errors) ==
    Outcome([sheets_info  |-> _xml_sheets_info(data_by_type, 1),
             data_by_type |->
                 [t \in DOMAIN data_by_type |->
                     [i \in 1..Len(data_by_type[t]) |-> data_by_type[t][i].record]],
             errors       |-> errors],
            errors)

\* _parse_xml on the body of the upload: ET.fromstring raises ParseError on
\* a text that is no well-formed document.
_parse_xml(body, errors) ==
    IF body.xml_error # None
    THEN Failed("Error parsing XML: ", body.xml_error, errors)
    ELSE _xml_outcome(_extract_xml_data(body.tree), errors)

(***************************************************************************)
(* The orchestrator (UnifiedImportHandler.parse_file).                     *)
(***************************************************************************)
\* Whether what a parser hands back is an exception that left it.
IsRaise(out) == "raise" \in DOMAIN out.value

\* The except clause of parse_file around the outcome of a parser.
_parse_file_except(file_type, out) ==
    IF IsRaise(out)
    THEN Failed("Error parsing " \o file_type \o " file: ", out.value.raise, out.errors)
    ELSE out

\* parse_file: the dispatch on self.file_type and the try/except around it.
parse_file(file_type, body, sniffed, errors) ==
    IF file_type = None
    THEN Outcome([error |-> "Unsupported file format"],
                 Append(errors, "Unsupported file format"))
    ELSE _parse_file_except(file_type,
             CASE file_type \in {"xlsx", "xls"} -> _parse_excel(body, errors)
               [] file_type = "csv" -> _parse_csv(body.bytes, sniffed, errors)
               [] file_type = "xml" -> _parse_xml(body, errors))

(***************************************************************************)
(* The steps of a parse that raise an exception, by the call that raises.  *)
(* The exception of "read_excel", "decode", "sniff" and "read_csv" is      *)
(* caught at the step; that of the others reaches the handler around the   *)
(* whole parser and ends the parse.                                        *)
(***************************************************************************)
FatalSteps == {"ExcelFile", "ValueError", "fallback", "fromstring"}

\* The steps of _parse_excel that raise.
_excel_thrown(body) ==
    IF body.open_error # None THEN {"ExcelFile"}
    ELSE IF \E i \in 1..Len(body.sheets) : body.sheets[i].error # None
    THEN {"read_excel"}
    ELSE {}

\* The steps of the reading of a decoded text that raise.
_read_thrown(primary, text, delimiter) ==
    IF primary.ok THEN {}
    ELSE IF _csv_reader_fallback(text, delimiter).ok THEN {"read_csv"}
    ELSE {"read_csv", "fallback"}

\* The steps of _parse_csv after the decoding loop that raise.
_decoded_thrown(decoded_content, sniffed) ==
    IF IsNaN(decoded_content) \/ decoded_content.str = "" THEN {"ValueError"}
    ELSE (IF sniffed = "fail" THEN {"sniff"} ELSE {})
         \cup _read_thrown(read_csv(decoded_content.str,
                                    _choose_delimiter(decoded_content.str, sniffed)),
                           decoded_content.str,
                           _choose_delimiter(decoded_content.str, sniffed))

\* The steps of _parse_csv that raise.
_csv_thrown(content, sniffed) ==
    (IF decode(content, "utf-8") = DecodeError THEN {"decode"} ELSE {})
    \cup _decoded_thrown(_decode_content(content), sniffed)

\* The steps of _parse_xml that raise.
_xml_thrown(body) ==
    (IF decode(body.bytes, "utf-8") = DecodeError THEN {"decode"} ELSE {})
    \cup (IF body.xml_error # None THEN {"fromstring"} ELSE {})

(***************************************************************************)
(* The uploads.                                                            *)
(* An upload is [name, content_type, body]; the body holds the bytes and   *)
(* what the readers of the libraries make of them:                         *)
(*   open_error  the message pd.ExcelFile raises, None for a workbook,     *)
(*   sheets      the sheets of the workbook,                               *)
(*   xml_error   the message ET.fromstring raises, None for a document,    *)
(*   tree        the root element of the document.                         *)
(***************************************************************************)
Element(tag, attrib, text, children) ==
    [tag |-> tag, attrib |-> attrib, text |-> text, children |-> children]
Leaf(tag, text) == Element(tag, <<>>, Str(text), <<>>)
Node(tag, children) == Element(tag, <<>>, NaN, children)
Attr(key, val) == [key |-> key, val |-> val]
NoTree == Element("", <<>>, NaN, <<>>)

TextBody(bytes) ==
    [bytes |-> bytes, open_error |-> "File is not a zip file", sheets |-> <<>>,
     xml_error |-> "syntax error: line 1, column 0", tree |-> NoTree]
WorkbookBody(sheets) ==
    [bytes |-> encode("PK", "latin-1"), open_error |-> None, sheets |-> sheets,
     xml_error |-> "not well-formed (invalid token): line 1, column 2", tree |-> NoTree]
XmlBody(tree) ==
    [bytes |-> encode("<" \o tree.tag \o "/>", "utf-8"),
     open_error |-> "File is not a zip file", sheets |-> <<>>,
     xml_error |-> None, tree |-> tree]

Names ==
    { "books.xlsx", "ledger.xls", "authors.csv", "tree.xml", "REPORT.XLSX",
      "notes.txt", "scan.pdf", "export.csv.bak", "xlsx", "" }

ContentTypes ==
    { "application/vnd.openxmlformats-officedocument.spreadsheetml.sheet",
      "application/octet-stream", "application/vnd.ms-excel", "text/csv",
      "Text/Plain; charset=utf-8", "application/xml", "text/xml",
      "application/pdf", "application/vnd.ms-excel, text/xml", "" }

DetectFiles ==
    [name : Names, content_type : ContentTypes,
     body : {TextBody(encode("a,b\n1,2\n", "utf-8"))}]

Sheet(name, columns, rows) ==
    [name |-> name, error |-> None, columns |-> columns, rows |-> rows]
BadSheet(name, error) ==
    [name |-> name, error |-> error, columns |-> <<>>, rows |-> <<>>]

BookColumns == << "Title", "cost", "Suggested Retail Price", " condition " >>

\* The sheets the workbooks of several sheets are made of.
CoreSheets ==
    { Sheet("Authors", << "Last Name", "first_name", "birth_year", "death_year" >>,
            << << Str("Austen"), Str("Jane"), Str("1775"), Str("1817") >>,
               << Str("Twain"), NaN, Str("null"), Str("NaN") >> >>),
      Sheet("Books", BookColumns,
            << << Str("Hamlet"), Str("5.00"), Str("15.00"), Str("good") >> >>),
      Sheet("Stock", BookColumns,
            << << Str("Emma"), Str("7.50"), Str("20.00"), Str("None") >>,
               << Str("Ulysses"), Str("9.00"), Str(""), Str("nan") >> >>),
      Sheet("Notes", << "foo", "bar" >>, << << Str("1"), Str("NULL") >> >>),
      Sheet("Empty", << "title", "cost" >>, << >>),
      BadSheet("Bad", "Worksheet named 'Bad' not found"),
      BadSheet("Broken", "could not read worksheet") }

\* One sheet for each signature column set.
SignatureSheets ==
    { Sheet("Sig " \o patterns[k].type, patterns[k].cols,
            << [c \in 1..Len(patterns[k].cols) |-> Str("v" \o ToString(c))] >>) :
        k \in 1..Len(patterns) }

Workbooks ==
    {w \in SeqsUpTo(CoreSheets, MaxSheets) :
        \A i, j \in 1..Len(w) : i # j => w[i].name # w[j].name}
    \cup {<< sh >> : sh \in SignatureSheets}

WorkbookFiles ==
    [name : {"inventory.xlsx"},
     content_type : {"application/vnd.openxmlformats-officedocument.spreadsheetml.sheet"},
     body : {WorkbookBody(w) : w \in Workbooks}]

RECURSIVE Repeat(_, _)
\* s * n
Repeat(s, n) ==
    IF n = 0 THEN ""
    ELSE IF n = 1 THEN s
    ELSE Repeat(s, n \div 2) \o Repeat(s, n - n \div 2)

\* A text longer than the sample of the sniffer, whose only ':' lies beyond
\* the sample.
LongText == "title,cost\n" \o Repeat("a", SampleLen) \o ",5:0\n"

\* Delimited texts, each with the codec it is uploaded in.
CsvSamples ==
    { << "last_name,first_name,birth_year,death_year\nAusten,Jane,1775,1817\nTwain,Mark,null,\n", "utf-8" >>,
      << "title;cost;suggested_retail_price;condition\nEmma;15.50;25.99;NaN\n", "utf-8" >>,
      << "title;cost;condition\nWar, and Peace;15,50;good\n", "utf-8" >>,
      << "first_name,last_name,phone_number,mailing_address\nAlice,Smith,555,N/A\n", "utf-8" >>,
      << "first_name,last_name,phone_number,address,group\nBob,Jones,556,Elm,Staff\n", "utf-8" >>,
      << "customer,employee,sale_amount,payment_method\nAlice,Bob,20,cash\n", "utf-8" >>,
      << "foo,bar\n1,2\n", "utf-8" >>,
      << "title,cost\n", "utf-8" >>,
      << "Last Name,first_name,description\nM^ller,Jos,Ch~teau\n", "latin-1" >>,
      << "Last Name,first_name,description\nM^ller,Jos,Ch~teau\n", "utf-8" >>,
      << "title,isbn,publisher,edition,cost,genre\nnull,NULL,None,nan,NaN,\n", "utf-8" >>,
      << "foo,bar\nnull,NULL\nNone,nan\nNaN,\n", "utf-8" >>,
      << "a,a\n1,2\n1,2,3\n", "utf-8" >>,
      << "title,cost\nEmma,5\nnull,NaN,9\n", "utf-8" >>,
      << "id,title,cost\n1,Emma,5,x\n", "utf-8" >>,
      << LongText, "utf-8" >> }

\* The bytes the generated delimited texts are made of: a , ; \n and the
\* bytes C3 BC FC.
ByteAlphabet == {97, 44, 59, 10, 195, 188, 252}

CsvBytes ==
    {encode(smp[1], smp[2]) : smp \in CsvSamples} \cup SeqsUpTo(ByteAlphabet, MaxBytes)

CsvFiles ==
    [name : {"data.csv"}, content_type : {"text/csv"},
     body : {TextBody(b) : b \in CsvBytes}]

\* The texts a field of a document is given in turn.
FieldTexts == {"null", "NULL", "None", "nan", "NaN", "", "nil", " Null ", "1849"}

Book(title, cost) == Node("book", << Leaf("title", title), Leaf("cost", cost) >>)

XmlTrees ==
    { \* plural containers below the root
      Node("library",
           << Node("books",
                   << Element("book", << Attr("id", "1") >>, NaN,
                              << Leaf("title", "Emma"), Leaf("cost", "5") >>),
                      Book("Ulysses", "null") >>),
              Node("authors",
                   << Node("author", << Leaf("last_name", "Austen"),
                                        Leaf("death_year", "1817") >>) >>) >>),
      \* two containers of one type
      Node("library",
           << Node("books", << Book("Emma", "5") >>),
              Node("books", << Book("Ulysses", "9"), Book("Hamlet", "3") >>) >>),
      \* the root names the type
      Node("authors",
           << Node("author", << Leaf("last_name", "Poe"), Leaf("birth_year", "1809") >>),
              Node("author", << Leaf("last_name", "Twain") >>) >>),
      \* attributes
      Node("export",
           << Node("customers",
                   << Element("customer",
                              << Attr("id", "1"), Attr("Mail-Status", "active") >>, NaN,
                              << Leaf("first_name", "Alice") >>) >>) >>),
      \* a nested record
      Node("books",
           << Node("book", << Leaf("title", "Emma"),
                              Node("author", << Leaf("first_name", "Jane"),
                                                Leaf("last-name", "Austen") >>) >>) >>),
      \* records the content names
      Node("data", << Node("item", << Leaf("title", "Emma"), Leaf("price", "5") >>) >>),
      \* records nothing names
      Node("data", << Node("row", << Leaf("foo", "1") >>) >>),
      \* a container without items, under a root that names a type
      Node("orders_export", << Node("orders", << >>) >>),
      \* text-only children of the root
      Node("notes", << Leaf("note", " remember "), Leaf("note", "") >>),
      \* a record with a repeated child
      Node("books",
           << Node("book", << Leaf("title", "Emma"), Leaf("author", "Jane"),
                              Leaf("author", "Cassandra") >>) >>),
      \* a record with an attribute and a child of one name
      Node("customers",
           << Element("customer", << Attr("ID", "1") >>, NaN,
                      << Leaf("id", "7"), Leaf("first_name", "Alice") >>) >>) }
    \cup { Node("catalog",
                << Node("authors",
                        << Node("author", << Leaf("last_name", "Poe"),
                                             Leaf("death_year", t) >>) >>) >>) :
             t \in FieldTexts }

XmlFiles ==
    [name : {"catalog.xml"}, content_type : {"text/xml"},
     body : {XmlBody(t) : t \in XmlTrees}]

Files == DetectFiles \cup WorkbookFiles \cup CsvFiles \cup XmlFiles

(***************************************************************************)
(* The upload view (unified_import_upload).                                *)
(***************************************************************************)
\* A request without the part "file": request.FILES holds no upload.
NoFile == [name |-> None, content_type |-> None, body |-> TextBody(<< >>)]

\* The requests the view gets.
Requests == Files \cup {NoFile}

\* JsonResponse(body, status=status)
JsonResponse(body, status) == [status |-> status, body |-> body]
NoResponse == JsonResponse(EmptyDict, 0)

\* str.upper()
UpperChar(c) ==
    IF \E i \in 1..Len(LowerChars) : Char(LowerChars, i) = c
    THEN Char(UpperChars, CHOOSE i \in 1..Len(LowerChars) : Char(LowerChars, i) = c)
    ELSE c
Upper(s) == JoinStr([i \in 1..Len(s) |-> UpperChar(Char(s, i))], 1, Len(s))

\* One entry of the mapping suggestions: a model field and the words its
\* column is looked for by.
Possible(model_field, possible_columns) ==
    [model_field |-> model_field, possible_columns |-> possible_columns]

\* `mappings` of _get_column_mapping_suggestions.
mappings ==
    [author |->
        << Possible("last_name", {"last_name", "lastname", "surname", "family_name"}),
           Possible("first_name", {"first_name", "firstname", "given_name", "name"}),
           Possible("birth_year", {"birth_year", "born", "birth", "year_born"}),
           Possible("death_year", {"death_year", "died", "death", "year_died"}),
           Possible("description", {"description", "bio", "biography", "about"}) >>,
     book |->
        << Possible("title", {"title", "book_title", "name"}),
           Possible("cost", {"cost", "purchase_price", "buy_price"}),
           Possible("suggested_retail_price",
                    {"price", "retail_price", "suggested_price", "sell_price"}),
           Possible("condition", {"condition", "state", "quality"}),
           Possible("publisher", {"publisher", "pub", "publishing_house"}),
           Possible("publication_date", {"publication_date", "pub_date", "published"}),
           Possible("author_names", {"author", "authors", "author_name", "author_names"}),
           Possible("legacy_id", {"legacy_id", "old_id", "isbn", "barcode"}) >>,
     customer |->
        << Possible("first_name", {"first_name", "firstname", "given_name"}),
           Possible("last_name", {"last_name", "lastname", "surname"}),
           Possible("phone_number", {"phone", "phone_number", "tel", "telephone"}),
           Possible("mailing_address", {"address", "mailing_address", "street", "location"}),
           Possible("secondary_mailing_address", {"secondary_address", "address_2", "apt"}),
           Possible("city", {"city", "town"}),
           Possible("state", {"state", "province", "region"}),
           Possible("zip_code", {"zip", "zip_code", "postal_code", "postcode"}) >>,
     employee |->
        << Possible("first_name", {"first_name", "firstname", "given_name"}),
           Possible("last_name", {"last_name", "lastname", "surname"}),
           Possible("email", {"email", "email_address", "mail"}),
           Possible("phone_number", {"phone", "phone_number", "tel"}),
           Possible("address", {"address", "street", "location"}),
           Possible("secondary_mailing_address", {"secondary_address", "address_2", "apt"}),
           Possible("city", {"city", "town"}),
           Possible("state", {"state", "province", "region"}),
           Possible("zip_code", {"zip", "zip_code", "postal_code", "postcode"}),
           Possible("group_name", {"group", "role", "position", "department"}) >>,
     order |->
        << Possible("customer_name", {"customer", "customer_name", "buyer"}),
           Possible("employee_name", {"employee", "employee_name", "seller"}),
           Possible("sale_amount", {"amount", "total", "sale_amount", "price"}),
           Possible("payment_method", {"payment", "payment_method", "pay_method"}),
           Possible("order_status", {"status", "order_status", "state"}),
           Possible("book_titles", {"books", "book_titles", "items"}) >>]

\* The position of the first column that holds one of the words, 0 when no
\* column does.
_first_match(columns, possible_columns) ==
    IF \E i \in 1..Len(columns) : \E w \in possible_columns : Contains(columns[i], w)
    THEN CHOOSE i \in 1..Len(columns) :
             /\ \E w \in possible_columns : Contains(columns[i], w)
             /\ \A j \in 1..(i - 1) : \A w \in possible_columns : ~Contains(columns[j], w)
    ELSE 0

\* The two loops of _get_column_mapping_suggestions over the lower-case
\* columns.
_suggestions(columns, type_mappings) ==
    [f \in {type_mappings[k].model_field :
               k \in {j \in 1..Len(type_mappings) :
                         _first_match(columns, type_mappings[j].possible_columns) > 0}} |->
        columns[_first_match(columns,
                             type_mappings[CHOOSE k \in 1..Len(type_mappings) :
                                               type_mappings[k].model_field = f]
                                 .possible_columns)]]

_get_column_mapping_suggestions(columns, detected_type) ==
    IF detected_type \notin DOMAIN mappings THEN EmptyDict
    ELSE _suggestions(LowerAll(columns), mappings[detected_type])

\* The entries of sheets_info of a type that hold rows.
InfosOfType(infos, T) ==
    LET Is(info) == info.type = T /\ info.rows > 0 IN SelectSeq(infos, Is)

\* The lists of the keys of the records of a type, in the order of the
\* records: the keys of a record of a table are the columns of its table,
\* those of a record of a document the keys of its element.
_table_keys(infos) == [i \in 1..Len(infos) |-> infos[i].columns]
_element_keys(records) == [i \in 1..Len(records) |-> records[i].keys]
_record_keys(file_type, body, sheets_info, T) ==
    IF file_type = "xml" THEN _element_keys(_extract_xml_data(body.tree)[T])
    ELSE _table_keys(InfosOfType(sheets_info, T))

\* pd.DataFrame(records).columns: the keys of the records in the order of
\* their first appearance.
_frame_columns(key_lists) == FirstOccurrences(JoinSeq(key_lists, 1, Len(key_lists)), 1)

\* sheet_info["suggested_mappings"] = suggestions
_suggested(sheet_info, suggestions) == sheet_info @@ ("suggested_mappings" :> suggestions)

\* The body of the loop over sheets_info.
_sheet_suggestions(file_type, body, import_data, sheet_info) ==
    IF /\ sheet_info.type \notin {None, "", "unknown"}
       /\ sheet_info.type \in DOMAIN import_data.data_by_type
       /\ Len(import_data.data_by_type[sheet_info.type]) > 0
    THEN _suggested(sheet_info,
                    _get_column_mapping_suggestions(
                        _frame_columns(_record_keys(file_type, body, import_data.sheets_info,
                                                    sheet_info.type)),
                        sheet_info.type))
    ELSE sheet_info

\* import_data of the view after the file type and the suggestions were
\* added.
_upload_data(file_type, body, import_data) ==
    [sheets_info  |-> [i \in 1..Len(import_data.sheets_info) |->
                          _sheet_suggestions(file_type, body, import_data,
                                             import_data.sheets_info[i])],
     data_by_type |-> import_data.data_by_type,
     errors       |-> import_data.errors,
     file_type    |-> file_type]

\* The view with every failure answered 400.
unified_import_upload_all_400(upload, file_type, import_data, errors) ==
    IF "sheets_info" \in DOMAIN import_data /\ errors = <<>>
    THEN JsonResponse([success |-> TRUE,
                       message |-> "Successfully parsed " \o Upper(file_type) \o " file",
                       data    |-> _upload_data(file_type, upload.body, import_data)], 200)
    ELSE JsonResponse([error |-> "Import failed", errors |-> errors], 400)

\* unified_import_upload: the response for the request, from the handler of
\* its upload and from what parse_file gave (an exception that leaves the
\* handler is {"raise": message}).
unified_import_upload(upload, file_type, import_data, errors) ==
    IF upload = NoFile THEN JsonResponse([error |-> "No file provided"], 400)
    ELSE IF file_type = None
    THEN JsonResponse([error |-> "Unsupported file format. Supported formats: XLSX, XLS, CSV, XML"],
                      400)
    ELSE IF "raise" \in DOMAIN import_data
    THEN JsonResponse([error |-> "Error processing file: " \o import_data.raise], 500)
    ELSE IF "error" \in DOMAIN import_data
    THEN JsonResponse([error |-> import_data.error, errors |-> errors], 400)
    ELSE JsonResponse([success |-> TRUE,
                       message |-> "Successfully parsed " \o Upper(file_type) \o " file",
                       data    |-> _upload_data(file_type, upload.body, import_data)], 200)

(***************************************************************************)
(* The state machine: an upload is handed to a new handler, which is then  *)
(* asked to parse it; the upload view does both and answers the request.   *)
(***************************************************************************)
VARIABLES
    file,       \* the upload (file_obj), NoFile for a request without one
    pc,         \* "new", "constructed", "returned", "raised" or "responded"
    file_type,  \* self.file_type
    errors,     \* self.errors
    result,     \* what parse_file returned
    invoked,    \* the parser parse_file called, None when it called none
    sniffed,    \* what the sniffer did, None when it was not asked
    delimiter,  \* the delimiter the text was read with, None when not read
    thrown,     \* the steps of the parse that raised an exception
    response,   \* the response of the upload view, NoResponse before it
    \* a call of clean_value
    in_value,       \* the value handed in
    in_field_type,  \* the declared type handed in
    out_value,      \* what the call gave, Pending before it
    \* an ImportErrorHandler
    error_handler,  \* its fields errors, warnings, success_count, failed_count
    \* a serializer and the tables of the database
    serializer_data,    \* the data the serializer is made with
    serializer,         \* what is_valid() left, Pending before it
    database,           \* the rows of the tables, in the order of their creation
    \* a request of the process step
    request_body,       \* what json.loads(request.body) gives
    process_response,   \* the response of the process view, Pending before it
    \* the orders of the shop
    orders,             \* the rows of Order by order_id, each with the ids of its books
    books,              \* the rows of Book by book_id
    today,              \* date.today(), a number of days
    order_request,      \* the last request of the order-close view, Pending before it
    order_response,     \* the response to it, Pending before it
    \* the employees and their users
    users,              \* the rows of User, in the order of their creation
    employees,          \* the rows of Employee, in the order of their creation
    employee_call,      \* the arguments of the last create_with_user, Pending before it
    employee_created,   \* what the call gave: Created(pk) or the exception it raised
    \* a call of _detect_sheet_type
    in_columns,         \* df.columns
    out_type,           \* what the call gave, Pending before it
    \* a call of validate_row
    in_row,             \* the row handed in
    in_configs,         \* the field configurations handed in
    out_valid,          \* what the call gave, Pending before it
    \* a call of _import_records_by_type
    import_call,        \* the model type, the records and the mappings handed in
    import_out          \* what the call gave, Pending before it

\* The marker of a call that has not been made.
Pending == [pending |-> TRUE]

\* The state of an upload and of its handler.
uploadVars ==
    << file, pc, file_type, errors, result, invoked, sniffed, delimiter, thrown, response >>

\* The state of a call of clean_value.
cleanVars == << in_value, in_field_type, out_value >>

\* The state of an ImportErrorHandler.
handlerVars == << error_handler >>

\* The state of a serializer and of the database.
serializerVars == << serializer_data, serializer >>
databaseVars == << database >>

\* The state of a request of the process step.
processVars == << request_body, process_response >>

\* The state of the orders and of the order-close view.
orderVars == << orders, books, today, order_request, order_response >>

\* The state of the employees and of their users.
employeeVars == << users, employees, employee_call, employee_created >>

\* The state of a call of _detect_sheet_type and of a call of validate_row.
sheetVars == << in_columns, out_type >>
rowVars == << in_row, in_configs, out_valid >>

\* The state of a call of _import_records_by_type.
importVars == << import_call, import_out >>

vars ==
    << uploadVars, cleanVars, handlerVars, serializerVars, databaseVars, processVars,
       orderVars, employeeVars, sheetVars, rowVars, importVars >>

\* What the steps of each part of the program leave alone.
beyondUpload ==
    << cleanVars, handlerVars, serializerVars, databaseVars, processVars,
       orderVars, employeeVars, sheetVars, rowVars, importVars >>
beyondClean ==
    << uploadVars, handlerVars, serializerVars, databaseVars, processVars,
       orderVars, employeeVars, sheetVars, rowVars, importVars >>
beyondHandler ==
    << uploadVars, cleanVars, serializerVars, databaseVars, processVars,
       orderVars, employeeVars, sheetVars, rowVars, importVars >>
beyondSerializer ==
    << uploadVars, cleanVars, handlerVars, processVars, orderVars,
       employeeVars, sheetVars, rowVars, importVars >>
beyondProcess ==
    << uploadVars, cleanVars, handlerVars, serializerVars, orderVars,
       employeeVars, sheetVars, rowVars, importVars >>
beyondOrder ==
    << uploadVars, cleanVars, handlerVars, serializerVars, databaseVars,
       processVars, employeeVars, sheetVars, rowVars, importVars >>
beyondEmployee ==
    << uploadVars, cleanVars, handlerVars, serializerVars, databaseVars,
       processVars, orderVars, sheetVars, rowVars, importVars >>
beyondSheet ==
    << uploadVars, cleanVars, handlerVars, serializerVars, databaseVars,
       processVars, orderVars, employeeVars, rowVars, importVars >>
beyondRow ==
    << uploadVars, cleanVars, handlerVars, serializerVars, databaseVars,
       processVars, orderVars, employeeVars, sheetVars, importVars >>
beyondImport ==
    << uploadVars, cleanVars, handlerVars, serializerVars, processVars,
       orderVars, employeeVars, sheetVars, rowVars >>

\* ImportErrorHandler()
ImportErrorHandler == [errors |-> <<>>, warnings |-> <<>>, success_count |-> 0, failed_count |-> 0]

\* No handler of errors is in use.
NoHandler == error_handler = ImportErrorHandler

\* No serializer is in use.
NoSerializer == serializer_data = EmptyDict /\ serializer = Pending

\* The database without a row.
EmptyDatabase == [books |-> <<>>, authors |-> <<>>]
NoDatabase == database = EmptyDatabase

\* No request of the process step is under way.
NoProcess == request_body = EmptyDict /\ process_response = Pending

\* No call of _detect_sheet_type and no call of validate_row is under way.
NoSheet == in_columns = <<>> /\ out_type = Pending
NoRow == in_row = EmptyDict /\ in_configs = <<>> /\ out_valid = Pending

\* No call of _import_records_by_type is under way.
NoImport == import_call = EmptyDict /\ import_out = Pending

\* No user and no employee exist.
NoEmployee ==
    /\ users = <<>> /\ employees = <<>>
    /\ employee_call = Pending /\ employee_created = Pending

\* The shop has no order and no book.
NoOrder ==
    /\ orders = EmptyDict /\ books = EmptyDict /\ today = 1
    /\ order_request = Pending /\ order_response = Pending

\* No call of clean_value is under way.
NoClean == in_value = NoneValue /\ in_field_type = "text" /\ out_value = Pending

Init ==
    /\ file \in Requests
    /\ pc = "new"
    /\ file_type = None
    /\ errors = <<>>
    /\ result = EmptyDict
    /\ invoked = None
    /\ sniffed = None
    /\ delimiter = None
    /\ thrown = {}
    /\ response = NoResponse
    /\ NoClean /\ NoHandler /\ NoSerializer /\ NoDatabase /\ NoProcess /\ NoOrder /\ NoEmployee
    /\ NoSheet /\ NoRow /\ NoImport

\* No upload is under way.
NoUpload ==
    /\ file = NoFile
    /\ pc = "idle"
    /\ file_type = None
    /\ errors = <<>>
    /\ result = EmptyDict
    /\ invoked = None
    /\ sniffed = None
    /\ delimiter = None
    /\ thrown = {}
    /\ response = NoResponse

\* handler = UnifiedImportHandler(file_obj)
Construct ==
    /\ pc = "new"
    /\ file # NoFile
    /\ file_type' = _detect_file_type(file.name, file.content_type)
    /\ errors' = <<>>
    /\ pc' = "constructed"
    /\ UNCHANGED << file, result, invoked, sniffed, delimiter, thrown >>
    /\ UNCHANGED << response, beyondUpload >>

\* The end of parse_file: the value goes to the caller, or the exception does.
Return(out) ==
    /\ result' = out.value
    /\ errors' = out.errors
    /\ pc' = IF IsRaise(out) THEN "raised" ELSE "returned"

\* handler.parse_file() of a handler without a file type.
ParseUnsupported ==
    /\ pc = "constructed"
    /\ file_type = None
    /\ Return(parse_file(file_type, file.body, None, errors))
    /\ UNCHANGED << file, file_type, invoked, sniffed, delimiter, thrown >>
    /\ UNCHANGED << response, beyondUpload >>

\* handler.parse_file() of a handler of a workbook.
ParseExcel ==
    /\ pc = "constructed"
    /\ file_type \in {"xlsx", "xls"}
    /\ invoked' = "_parse_excel"
    /\ thrown' = _excel_thrown(file.body)
    /\ Return(parse_file(file_type, file.body, None, errors))
    /\ UNCHANGED << file, file_type, sniffed, delimiter >>
    /\ UNCHANGED << response, beyondUpload >>

\* handler.parse_file() of a handler of a delimited text.
ParseCsv ==
    /\ pc = "constructed"
    /\ file_type = "csv"
    /\ invoked' = "_parse_csv"
    /\ LET decoded_content == _decode_content(file.body.bytes)
           readable == IsStr(decoded_content) /\ decoded_content.str # ""
       IN  \E sn \in IF readable THEN SniffOutcomes(Sample(decoded_content.str))
                     ELSE {None} :
               /\ sniffed' = sn
               /\ thrown' = _csv_thrown(file.body.bytes, sn)
               /\ delimiter' = IF readable
                               THEN _choose_delimiter(decoded_content.str, sn)
                               ELSE None
               /\ Return(parse_file(file_type, file.body, sn, errors))
    /\ UNCHANGED << file, file_type >>
    /\ UNCHANGED << response, beyondUpload >>

\* handler.parse_file() of a handler of a markup tree.
ParseXml ==
    /\ pc = "constructed"
    /\ file_type = "xml"
    /\ invoked' = "_parse_xml"
    /\ thrown' = _xml_thrown(file.body)
    /\ Return(parse_file(file_type, file.body, None, errors))
    /\ UNCHANGED << file, file_type, sniffed, delimiter >>
    /\ UNCHANGED << response, beyondUpload >>

\* The point of the view at which it answers: at once without an upload,
\* after the handler was made without a file type, and else after
\* parse_file.
Answers ==
    IF file = NoFile THEN pc = "new"
    ELSE IF file_type = None THEN pc = "constructed"
    ELSE pc \in {"returned", "raised"}

\* return JsonResponse(...) of unified_import_upload
Respond ==
    /\ Answers
    /\ response' = unified_import_upload(file, file_type, result, errors)
    /\ pc' = "responded"
    /\ UNCHANGED << file, file_type, errors, result, invoked, sniffed, delimiter, thrown >>
    /\ UNCHANGED beyondUpload

Next == Construct \/ ParseUnsupported \/ ParseExcel \/ ParseCsv \/ ParseXml \/ Respond

Spec == Init /\ [][Next]_vars


(***************************************************************************)
(* What the outcome of a parse is read by.                                 *)
(***************************************************************************)
Returned == pc = "returned"

\* The outcome carries data: parse_file returned the mapping of a parser.
HasData == Returned /\ DOMAIN result = {"sheets_info", "data_by_type", "errors"}

\* The outcome is the error mapping {"error": message}.
IsErrorMapping == Returned /\ DOMAIN result = {"error"}

IsWorkbook == file_type \in {"xlsx", "xls"}

\* data_by_type.get(T, [])
TypeRecords(T) ==
    IF T \in DOMAIN result.data_by_type THEN result.data_by_type[T] ELSE <<>>

\* `part` is a run of consecutive elements of `whole`.
IsRunOf(part, whole) ==
    \E o \in 0..(Len(whole) - Len(part)) : SubSeq(whole, o + 1, o + Len(part)) = part

\* The records of a sheet that reads: its rows after the cleaning steps.
SheetRecords(sheet) ==
    to_dict_records(replace(fillna(CleanColumns(read_excel(sheet))), ExcelNullTokens))

\* A sheet that reads and is not empty.
NonEmptySheet(sheet) == sheet.error = None /\ ~Empty(read_excel(sheet))

\* The sheets of the uploaded workbook whose reading raises.
FailingSheets == {i \in 1..Len(file.body.sheets) : file.body.sheets[i].error # None}

\* The column names hold none of the words.
NoWordIn(columns, words) ==
    \A i \in 1..Len(columns) : \A w \in words : ~Contains(Lower(columns[i]), w)

\* The signature columns of the workbook classifier.
SheetSignatureColumns == UNION {Range(patterns[k].cols) : k \in 1..Len(patterns)}

RECURSIVE SumRows(_, _, _)
\* The sum of the row counts of the entries of sheets_info of type T, from
\* entry i on.
SumRows(infos, T, i) ==
    IF i > Len(infos) THEN 0
    ELSE (IF infos[i].type = T THEN infos[i].rows ELSE 0) + SumRows(infos, T, i + 1)

RECURSIVE RecordsOfType(_, _, _)
\* The records of the sheets of the workbook that sheets_info lists with
\* type T, sheet after sheet, from sheet i on.
RecordsOfType(sheets, T, i) ==
    IF i > Len(sheets) THEN <<>>
    ELSE (IF \E j \in 1..Len(result.sheets_info) :
                 /\ result.sheets_info[j].name = sheets[i].name
                 /\ result.sheets_info[j].type = T
          THEN SheetRecords(sheets[i]) ELSE <<>>)
         \o RecordsOfType(sheets, T, i + 1)

(***************************************************************************)
(* The properties.                                                         *)
(***************************************************************************)

C1_WitnessUnknown == IsErrorMapping /\ file_type = None /\ invoked = None

\* C2: the detected format is a function of the file name and the content
\* type.  A lower-cased name that ends in .xlsx, .xls, .csv or .xml gives
\* that format whatever the content type is; any other name gives the first
\* format, in the order xlsx, xls, csv, xml, one of whose MIME strings lies
\* inside the (lower-cased) content type, and no format when there is none.
C2_FormatDetection ==
    pc # "new" =>
        LET filename == Lower(file.name)
            exts     == {e \in {"xlsx", "xls", "csv", "xml"} : EndsWith(filename, "." \o e)}
            matching == {k \in 1..Len(SUPPORTED_FORMATS) :
                            \E j \in 1..Len(SUPPORTED_FORMATS[k].types) :
                                Contains(Lower(file.content_type),
                                         SUPPORTED_FORMATS[k].types[j])}
        IN  /\ \A e \in exts : file_type = e
            /\ exts = {} /\ matching # {} =>
                   \E k \in matching : /\ \A m \in matching : k <= m
                                       /\ file_type = SUPPORTED_FORMATS[k].fmt
            /\ exts = {} /\ matching = {} => file_type = None
            /\ [k \in 1..Len(SUPPORTED_FORMATS) |-> SUPPORTED_FORMATS[k].fmt]
                   = << "xlsx", "xls", "csv", "xml" >>

\* C2 happens: a name without a known extension, and a content type that
\* holds MIME strings of two formats; the first in the order is detected.
C2_Witness ==
    /\ pc # "new"
    /\ file.name = "notes.txt"
    /\ file.content_type = "application/vnd.ms-excel, text/xml"
    /\ file_type = "xls"

\* C2 happens also for text/plain under an unknown extension, and for an
\* extension against another format's content type.
C2_WitnessTextPlain ==
    /\ pc # "new"
    /\ file.name = "scan.pdf"
    /\ file.content_type = "Text/Plain; charset=utf-8"
    /\ file_type = "csv"

\* C3 (as amended): in a workbook of several sheets of which exactly one
\* raises while it is read, every other non-empty sheet is listed in
\* sheets_info with its row count and, if it is classified, contributes all
\* of its records to data_by_type, as one run of the list of its type; and
\* the errors of the outcome are exactly one entry, which names the failing
\* sheet.
C3_SheetIsolation ==
    (Returned /\ IsWorkbook /\ file.body.open_error = None
         /\ Len(file.body.sheets) >= 2 /\ Cardinality(FailingSheets) = 1) =>
        LET sheets == file.body.sheets
            bad    == sheets[CHOOSE i \in FailingSheets : TRUE]
        IN  /\ HasData
            /\ Len(result.errors) = 1
            /\ Contains(result.errors[1], "'" \o bad.name \o "'")
            /\ errors = result.errors
            /\ \A i \in 1..Len(sheets) : NonEmptySheet(sheets[i]) =>
                   \E j \in 1..Len(result.sheets_info) :
                       /\ result.sheets_info[j].name = sheets[i].name
                       /\ result.sheets_info[j].rows = Len(sheets[i].rows)
                       /\ result.sheets_info[j].type # None =>
                              IsRunOf(SheetRecords(sheets[i]),
                                      TypeRecords(result.sheets_info[j].type))

\* C3 as it was stated: every other non-empty sheet, classified or not,
\* contributes all of its records to data_by_type.
C3_EverySheetContributes ==
    (Returned /\ IsWorkbook /\ file.body.open_error = None
         /\ Len(file.body.sheets) >= 2 /\ Cardinality(FailingSheets) = 1) =>
        LET sheets == file.body.sheets
            bad    == sheets[CHOOSE i \in FailingSheets : TRUE]
        IN  /\ HasData
            /\ Len(result.errors) = 1
            /\ Contains(result.errors[1], "'" \o bad.name \o "'")
            /\ \A i \in 1..Len(sheets) : NonEmptySheet(sheets[i]) =>
                   /\ \E j \in 1..Len(result.sheets_info) :
                          result.sheets_info[j].name = sheets[i].name
                   /\ \E T \in DOMAIN result.data_by_type :
                          IsRunOf(SheetRecords(sheets[i]), result.data_by_type[T])

\* C3 happens: the first of three sheets fails, and the two after it are
\* listed and filed.
C3_Witness ==
    /\ HasData /\ IsWorkbook
    /\ Len(file.body.sheets) = 3
    /\ FailingSheets = {1}
    /\ Len(result.sheets_info) = 2
    /\ \A j \in 1..2 : result.sheets_info[j].type # None
    /\ Len(result.errors) = 1

C4_WitnessCsv ==
    /\ HasData /\ file_type = "csv"
    /\ Range(result.sheets_info[1].columns) = Range(patterns[4].cols)
    /\ result.sheets_info[1].type = "employee"

\* C4 happens for {foo, bar} in both classifiers.
C4_WitnessUnclassified ==
    /\ HasData /\ IsWorkbook
    /\ Len(result.sheets_info) = 1
    /\ Range(result.sheets_info[1].columns) = {"foo", "bar"}
    /\ result.sheets_info[1].type = None

\* C5: in every successful outcome the list of each domain type T in
\* data_by_type is as long as the sum of the row counts of the entries of
\* sheets_info of type T; and the sheets of a workbook that are of type T
\* give one list, the records of the first followed by those of the next.
C5_TypeMerge ==
    HasData =>
        /\ \A k \in 1..Len(DomainTypes) :
               Len(TypeRecords(DomainTypes[k]))
                   = SumRows(result.sheets_info, DomainTypes[k], 1)
        /\ IsWorkbook =>
               \A k \in 1..Len(DomainTypes) :
                   TypeRecords(DomainTypes[k])
                       = RecordsOfType(file.body.sheets, DomainTypes[k], 1)

\* C5 happens: the sheets Books (one row) and Stock (two rows) are both book
\* sheets, and the list of the books is Hamlet, Emma, Ulysses.
C5_Witness ==
    /\ HasData /\ IsWorkbook
    /\ Len(result.sheets_info) = 2
    /\ result.sheets_info[1].name = "Books" /\ result.sheets_info[1].type = "book"
    /\ result.sheets_info[2].name = "Stock" /\ result.sheets_info[2].type = "book"
    /\ Len(result.data_by_type["book"]) = 3
    /\ result.data_by_type["book"][1]["title"] = Str("Hamlet")
    /\ result.data_by_type["book"][3]["title"] = Str("Ulysses")

\* C6: every table that sheets_info lists has a row count of at least one,
\* for a workbook, a delimited text and a markup tree alike.
C6_ListedTablesHaveRows ==
    HasData => \A j \in 1..Len(result.sheets_info) : result.sheets_info[j].rows >= 1

\* C7: in the outcome of a workbook or of a delimited text, a non-empty
\* table none of whose columns matches a signature is listed in sheets_info,
\* with its name, its row count, its columns and the type None, and
\* contributes no record: the keys of data_by_type are domain types, and no
\* record of data_by_type is a record of that table.
C7_UnclassifiedListedNotFiled ==
    (HasData /\ (IsWorkbook \/ file_type = "csv")) =>
        /\ DOMAIN result.data_by_type \subseteq Range(DomainTypes)
        /\ \A j \in 1..Len(result.sheets_info) :
               LET info == result.sheets_info[j]
               IN  (info.rows >= 1
                        /\ NoWordIn(info.columns,
                                    IF IsWorkbook THEN SheetSignatureColumns
                                    ELSE CsvSignatureWords)) =>
                       /\ info.type = None
                       /\ \A T \in DOMAIN result.data_by_type :
                              \A r \in 1..Len(result.data_by_type[T]) :
                                  DOMAIN result.data_by_type[T][r] # Range(info.columns)
        /\ IsWorkbook =>
               \A i \in 1..Len(file.body.sheets) :
                   LET sheet == file.body.sheets[i]
                   IN  (NonEmptySheet(sheet)
                            /\ NoWordIn(sheet.columns, SheetSignatureColumns)) =>
                           \E j \in 1..Len(result.sheets_info) :
                               /\ result.sheets_info[j].name = sheet.name
                               /\ result.sheets_info[j].rows = Len(sheet.rows)
                               /\ result.sheets_info[j].columns
                                      = CleanColumns(read_excel(sheet)).columns
                               /\ result.sheets_info[j].type = None
        /\ file_type = "csv" =>
               /\ Len(result.sheets_info) = 1
               /\ result.sheets_info[1].name = "CSV Data"

\* C7 happens in a workbook: Notes is listed beside Books and the books are
\* the only records.
C7_Witness ==
    /\ HasData /\ IsWorkbook
    /\ \E j \in 1..Len(result.sheets_info) :
           /\ result.sheets_info[j].name = "Notes"
           /\ result.sheets_info[j].type = None
           /\ result.sheets_info[j].rows = 1
    /\ DOMAIN result.data_by_type = {"book"}
    /\ Len(result.data_by_type["book"]) = 1

\* C7 happens in a delimited text: the table foo, bar is listed and nothing
\* is filed.
C7_WitnessCsv ==
    /\ HasData /\ file_type = "csv"
    /\ result.sheets_info[1].columns = << "foo", "bar" >>
    /\ result.sheets_info[1].rows = 3
    /\ result.sheets_info[1].type = None
    /\ result.data_by_type = EmptyDict

\* C8: no null token of {"null", "NULL", "None", "nan", "NaN", ""} survives
\* as its literal text in an outcome of any of the three formats: a cell or
\* field of that text is delivered as the empty string.
C8_NullTokensBlanked ==
    HasData =>
        \A T \in DOMAIN result.data_by_type :
            \A r \in 1..Len(result.data_by_type[T]) :
                \A key \in DOMAIN result.data_by_type[T][r] :
                    LET value == result.data_by_type[T][r][key]
                    IN  /\ ~IsNaN(value)
                        /\ IsStr(value) =>
                               value.str \notin {"null", "NULL", "None", "nan", "NaN"}

\* C9: the delimited-text parser takes the text of the first codec of
\* utf-8, latin-1, iso-8859-1, cp1252 that decodes the bytes, so that
\* Latin-1 bytes keep their characters; and it fails with the "could not
\* decode" error only when no codec of the list decodes the bytes.
C9_CodecOrder ==
    /\ encodings = << "utf-8", "latin-1", "iso-8859-1", "cp1252" >>
    /\ (Returned /\ file_type = "csv") =>
           /\ (IsErrorMapping
                   /\ Contains(result.error,
                               "Could not decode CSV file with common encodings")) =>
                  \A k \in 1..Len(encodings) :
                      decode(file.body.bytes, encodings[k]) = DecodeError
           /\ (\E k \in 1..Len(encodings) :
                   decode(file.body.bytes, encodings[k]) # DecodeError) =>
                  ~(IsErrorMapping
                        /\ Contains(result.error,
                                    "Could not decode CSV file with common encodings"))
           /\ file.body.bytes = encode("Last Name,first_name,description\nM^ller,Jos,Ch~teau\n",
                                       "latin-1") =>
                  /\ HasData
                  /\ result.data_by_type["author"][1]["last_name"] = Str("M^ller")

\* C10: the delimiter the delimited text is read with is ';' if the header
\* line holds strictly more semicolons than commas, whatever the sniffer
\* did; otherwise it is what the sniffer named for the first 1024
\* characters, and ',' when the sniffer failed.
C10_DelimiterChoice ==
    (file_type = "csv" /\ delimiter # None) =>
        LET text        == _decode_content(file.body.bytes).str
            header_line == SplitLines(text)[1]
        IN  /\ Count(header_line, ";") > Count(header_line, ",") => delimiter = ";"
            /\ Count(header_line, ";") <= Count(header_line, ",") =>
                   /\ sniffed = "fail" => delimiter = ","
                   /\ sniffed # "fail" =>
                          /\ delimiter = sniffed
                          /\ Contains(SubSeq(text, 1, IF Len(text) < 1024 THEN Len(text)
                                                      ELSE 1024), sniffed)

\* C10 happens: the sniffer names ',' for a header of two semicolons and no
\* comma, and the text is read with ';'.
C10_Witness ==
    /\ HasData /\ file_type = "csv"
    /\ sniffed = ","
    /\ delimiter = ";"
    /\ result.sheets_info[1].columns = << "title", "cost", "condition" >>
    /\ result.data_by_type["book"][1]["title"] = Str("War, and Peace")

\* C10 happens also without the override: the sniffer fails on a header of
\* commas and the text is read with ','.
C10_WitnessSniffFails ==
    /\ HasData /\ file_type = "csv"
    /\ sniffed = "fail"
    /\ delimiter = ","
    /\ Len(result.sheets_info[1].columns) = 4

(***************************************************************************)
(* Flattening an element.                                                  *)
(***************************************************************************)
\* The elements of a document: the root and everything below it.
Elements(root) == Range(<< root >> \o Descendants(root))

\* C11: the record of an element has a field for every attribute, under the
\* lower-cased key with "_" for "-" and with the text of the attribute, and a
\* field for every child under the key of its tag, with the nested record of
\* a child that has children and the trimmed text (empty for a null-like
\* text) of a text-only child: no attribute and no child is lost.
C11_NothingLost ==
    (Returned /\ invoked = "_parse_xml") =>
        \A element \in Elements(file.body.tree) :
            \/ Len(element.attrib) + Len(element.children) = 0
            \/ /\ \A i \in 1..Len(element.attrib) :
                      /\ FieldKey(element.attrib[i].key) \in DOMAIN _xml_element_to_dict(element)
                      /\ _xml_element_to_dict(element)[FieldKey(element.attrib[i].key)]
                             = Str(element.attrib[i].val)
               /\ \A i \in 1..Len(element.children) :
                      /\ FieldKey(element.children[i].tag) \in DOMAIN _xml_element_to_dict(element)
                      /\ _xml_element_to_dict(element)[FieldKey(element.children[i].tag)]
                             = ChildValue(element.children[i])

(***************************************************************************)
(* Scalar values and their conversions (import_utils.clean_value).         *)
(*                                                                         *)
(* A scalar is NoneValue, Str(text), IntValue(n), BoolValue(b),            *)
(* FloatValue(t) for the float t / 10, or NonFinite(name) for the floats   *)
(* nan, inf and -inf.  A conversion gives a value or Raise(name), the      *)
(* exception it raises.                                                    *)
(***************************************************************************)
IntValue(n) == [int |-> n]
BoolValue(b) == [bool |-> b]
FloatValue(t) == [float |-> t]
NonFinite(name) == [nonfinite |-> name]
Raise(name) == [raise |-> name]

IsInt(v) == DOMAIN v = {"int"}
IsBool(v) == DOMAIN v = {"bool"}
IsFloat(v) == DOMAIN v = {"float"}
IsNonFinite(v) == DOMAIN v = {"nonfinite"}
IsRaised(v) == DOMAIN v = {"raise"}

Digits == "0123456789"
IsDigit(c) == \E i \in 1..Len(Digits) : Char(Digits, i) = c
DigitOf(c) == (CHOOSE i \in 1..Len(Digits) : Char(Digits, i) = c) - 1
AllDigits(s) == \A i \in 1..Len(s) : IsDigit(Char(s, i))

\* s.replace(c, "")
Without(s, c) == Replace(s, c, "")

\* The number a text of digits writes; 0 for the empty text.
RECURSIVE NatOf(_)
NatOf(s) ==
    IF s = "" THEN 0
    ELSE 10 * NatOf(SubSeq(s, 1, Len(s) - 1)) + DigitOf(Char(s, Len(s)))

\* s.find(c) + 1: the first position of a character, 0 when it is absent.
IndexOf(s, c) ==
    IF \E i \in 1..Len(s) : Char(s, i) = c
    THEN CHOOSE i \in 1..Len(s) : Char(s, i) = c /\ \A j \in 1..(i - 1) : Char(s, j) # c
    ELSE 0

HasSign(t) == Len(t) > 0 /\ Char(t, 1) \in {"+", "-"}
Unsigned(t) == IF HasSign(t) THEN SubSeq(t, 2, Len(t)) ELSE t

\* The digits of an integer literal: an underscore stands only between two
\* digits.
IsDigitRun(b) ==
    /\ Len(b) > 0
    /\ \A i \in 1..Len(b) :
          \/ IsDigit(Char(b, i))
          \/ /\ Char(b, i) = "_"
             /\ 1 < i /\ i < Len(b)
             /\ IsDigit(Char(b, i - 1)) /\ IsDigit(Char(b, i + 1))

\* The texts int() reads, once stripped: sign? digit ('_'? digit)*.
IsIntLiteral(t) == IsDigitRun(Unsigned(t))

IntOfText(t) ==
    IF HasSign(t) /\ Char(t, 1) = "-"
    THEN 0 - NatOf(Without(Unsigned(t), "_"))
    ELSE NatOf(Without(Unsigned(t), "_"))

\* int(text)
_int_of_text(stripped) ==
    IF IsIntLiteral(stripped) THEN IntValue(IntOfText(stripped)) ELSE Raise("ValueError")

\* int(t / 10): the float cut towards zero.
Truncate(t) == IF t >= 0 THEN t \div 10 ELSE 0 - ((0 - t) \div 10)

\* int(value)
int(v) ==
    IF IsStr(v) THEN _int_of_text(Strip(v.str))
    ELSE IF IsInt(v) THEN v
    ELSE IF IsBool(v) THEN IntValue(IF v.bool THEN 1 ELSE 0)
    ELSE IF IsFloat(v) THEN IntValue(Truncate(v.float))
    ELSE IF IsNonFinite(v)
         THEN (IF v.nonfinite = "nan" THEN Raise("ValueError") ELSE Raise("OverflowError"))
    ELSE Raise("TypeError")

Abs(n) == IF n < 0 THEN 0 - n ELSE n

\* str(value)
str(v) ==
    IF IsStr(v) THEN v.str
    ELSE IF IsInt(v) THEN ToString(v.int)
    ELSE IF IsBool(v) THEN (IF v.bool THEN "True" ELSE "False")
    ELSE IF IsFloat(v)
         THEN (IF v.float < 0 THEN "-" ELSE "") \o ToString(Abs(v.float) \div 10)
                  \o "." \o ToString(Abs(v.float) % 10)
    ELSE IF IsNonFinite(v) THEN v.nonfinite
    ELSE "None"

\* A Decimal: a finite one is (-1)^sign * coeff * 10^exp; the kinds "inf",
\* "nan" and "snan" are the special ones.
DecimalValue(kind, sign, coeff, exp) ==
    [decimal |-> kind, sign |-> sign, coeff |-> coeff, exp |-> exp]
IsDecimal(v) == "decimal" \in DOMAIN v

\* The digits of a decimal literal before the exponent: at most one point,
\* at least one digit.
IsMantissa(m) ==
    /\ Count(m, ".") <= 1
    /\ Without(m, ".") # ""
    /\ AllDigits(Without(m, "."))

FractionLen(m) == IF Count(m, ".") = 0 THEN 0 ELSE Len(m) - IndexOf(m, ".")

\* A decimal literal of a mantissa and an exponent.
_decimal_parts(sign, m, x) ==
    IF IsMantissa(m) /\ IsIntLiteral(x)
    THEN DecimalValue("finite", sign, NatOf(Without(m, ".")), IntOfText(x) - FractionLen(m))
    ELSE Raise("InvalidOperation")

StartsWith(s, prefix) == Len(s) >= Len(prefix) /\ SubSeq(s, 1, Len(prefix)) = prefix

\* A decimal literal without its sign, in lower case.
_decimal_body(sign, b) ==
    IF b \in {"inf", "infinity"} THEN DecimalValue("inf", sign, 0, 0)
    ELSE IF StartsWith(b, "nan") /\ AllDigits(SubSeq(b, 4, Len(b)))
         THEN DecimalValue("nan", sign, NatOf(SubSeq(b, 4, Len(b))), 0)
    ELSE IF StartsWith(b, "snan") /\ AllDigits(SubSeq(b, 5, Len(b)))
         THEN DecimalValue("snan", sign, NatOf(SubSeq(b, 5, Len(b))), 0)
    ELSE IF Count(b, "e") = 1
         THEN _decimal_parts(sign, SubSeq(b, 1, IndexOf(b, "e") - 1),
                             SubSeq(b, IndexOf(b, "e") + 1, Len(b)))
    ELSE _decimal_parts(sign, b, "0")

_decimal_signed(t) ==
    _decimal_body(IF HasSign(t) /\ Char(t, 1) = "-" THEN 1 ELSE 0, Unsigned(t))

\* Decimal(text): the text is stripped and loses its underscores.
Decimal(text) == _decimal_signed(Lower(Without(Strip(text), "_")))

\* Decimal(str(value)): the text of a Decimal writes the same Decimal.
_decimal_of(v) == IF IsDecimal(v) THEN v ELSE Decimal(str(v))

\* except (names): the exceptions of these names give None.
Except(out, names) == IF IsRaised(out) /\ out.raise \in names THEN NoneValue ELSE out

\* The exceptions "except Exception" catches, of those a conversion raises.
Exceptions == {"ValueError", "TypeError", "OverflowError", "InvalidOperation"}

\* bool(value)
bool(v) ==
    IF IsInt(v) THEN v.int # 0
    ELSE IF IsFloat(v) THEN v.float # 0
    ELSE IF IsStr(v) THEN v.str # ""
    ELSE IF IsBool(v) THEN v.bool
    ELSE v # NoneValue

CleanNullTokens == {"null", "none", "nan", "n/a", "#n/a"}
TrueTexts == {"true", "yes", "1", "t", "y"}

\* "Type-specific cleaning" of clean_value.
_clean_typed(v, ft) ==
    IF ft = "integer"
    THEN (IF v = Str("") THEN NoneValue ELSE Except(int(v), {"ValueError", "TypeError"}))
    ELSE IF ft = "decimal"
    THEN (IF v = Str("") THEN NoneValue ELSE Except(_decimal_of(v), Exceptions))
    ELSE IF ft = "boolean"
    THEN (IF IsBool(v) THEN v
          ELSE IF IsStr(v) THEN BoolValue(Lower(v.str) \in TrueTexts)
          ELSE BoolValue(bool(v)))
    ELSE v

\* clean_value of a text without the check for null-like strings.
_clean_text_keeps_null_like(stripped, ft) ==
    IF stripped = ""
    THEN (IF ft \in {"number", "decimal", "integer"} THEN NoneValue ELSE Str(""))
    ELSE _clean_typed(Str(stripped), ft)

\* clean_value of a text, stripped.
_clean_text(stripped, ft) ==
    IF Lower(stripped) \in CleanNullTokens THEN NoneValue
    ELSE IF stripped = ""
         THEN (IF ft \in {"number", "decimal", "integer"} THEN NoneValue ELSE Str(""))
    ELSE _clean_typed(Str(stripped), ft)

clean_value(v, ft) ==
    IF v = NoneValue THEN NoneValue
    ELSE IF IsStr(v) THEN _clean_text(Strip(v.str), ft)
    ELSE _clean_typed(v, ft)

(***************************************************************************)
(* A call of clean_value on a scalar and a declared type.                  *)
(***************************************************************************)
\* The texts a cell of an import holds.
ScalarTexts ==
    { "null", "NULL", " None ", "nan", "N/A", "#n/a", "#N/A", "nil", "", "   ", "\t",
      "12", " 12 ", "-3", "+4", "1_0", "_1", "12.5", ".5", "5.", "1e3", "1E-2", "1.2.3",
      "abc", "12abc", "Infinity", "-inf", "sNaN", "NaN7", "true", "Yes", "0", " Emma " }

MaxInt == 2

\* The scalars a caller hands in.
Scalars ==
    {NoneValue} \cup {Str(t) : t \in ScalarTexts}
        \cup {IntValue(n) : n \in (0 - MaxInt)..MaxInt}
        \cup {FloatValue(t) : t \in {0, 25, 0 - 5, 10 * MaxInt}}
        \cup {NonFinite(n) : n \in {"nan", "inf", "-inf"}}
        \cup {BoolValue(b) : b \in BOOLEAN}

\* The declared types: those of the field configurations and those
\* clean_value names.
FieldTypes == {"text", "integer", "decimal", "boolean", "number"}

InitClean ==
    /\ NoUpload /\ NoHandler /\ NoSerializer /\ NoDatabase /\ NoProcess /\ NoOrder /\ NoEmployee
    /\ NoSheet /\ NoRow /\ NoImport
    /\ in_value \in Scalars
    /\ in_field_type \in FieldTypes
    /\ out_value = Pending

\* cleaned = clean_value(value, field_type)
CleanValue ==
    /\ out_value = Pending
    /\ out_value' = clean_value(in_value, in_field_type)
    /\ UNCHANGED << in_value, in_field_type >>
    /\ UNCHANGED beyondClean

NextClean == CleanValue

SpecClean == InitClean /\ [][NextClean]_vars

(***************************************************************************)
(* What a call of clean_value is read by.                                  *)
(***************************************************************************)
Cleaned == out_value # Pending

\* The text handed in is null-like: trimmed and in lower case it is one of
\* "null", "none", "nan", "n/a", "#n/a".
NullLike == IsStr(in_value) /\ Lower(Strip(in_value.str)) \in CleanNullTokens

\* C12: for every declared type clean_value gives None for None and for a
\* null-like text; any other text is trimmed before anything else is done
\* with it and is given back trimmed for a text field; an empty or
\* whitespace-only text stays "" for a text field and becomes None for an
\* integer or a decimal field.
C12_NullRule ==
    Cleaned =>
        /\ in_value = NoneValue => out_value = NoneValue
        /\ NullLike => out_value = NoneValue
        /\ (IsStr(in_value) /\ ~NullLike) =>
              /\ out_value = clean_value(Str(Strip(in_value.str)), in_field_type)
              /\ in_field_type = "text" => out_value = Str(Strip(in_value.str))
              /\ (Strip(in_value.str) = "" /\ in_field_type \in {"integer", "decimal"})
                    => out_value = NoneValue

\* A null-like text in capitals and blanks, cleaned for a decimal field.
C12_Witness ==
    /\ Cleaned
    /\ in_value = Str(" None ") /\ in_field_type = "decimal"
    /\ out_value = NoneValue

\* A text given back trimmed.
C12_WitnessTrimmed ==
    /\ Cleaned
    /\ in_value = Str(" Emma ") /\ in_field_type = "text"
    /\ out_value = Str("Emma")

\* A whitespace-only text of an integer field.
C12_WitnessBlank ==
    /\ Cleaned
    /\ in_value = Str("   ") /\ in_field_type = "integer"
    /\ out_value = NoneValue

\* C13: clean_value raises for no scalar and no declared type; what cannot
\* be made an integer or a decimal gives None.
C13_NeverRaises ==
    Cleaned =>
        /\ ~IsRaised(out_value)
        /\ in_field_type = "integer" => (out_value = NoneValue \/ IsInt(out_value))
        /\ in_field_type = "decimal" => (out_value = NoneValue \/ IsDecimal(out_value))

(***************************************************************************)
(* The handler of errors (import_utils.ImportErrorHandler).                *)
(***************************************************************************)
\* Python's list.append
Append1(seq, e) == seq \o << e >>

\* add_error without the count of the failure.
add_error_uncounted(self, row_num, field, message) ==
    [self EXCEPT
        !.errors = Append1(self.errors,
                           [row |-> row_num, field |-> field, message |-> message,
                            type |-> "error"])]

add_error(self, row_num, field, message) ==
    [self EXCEPT
        !.errors = Append1(self.errors,
                           [row |-> row_num, field |-> field, message |-> message,
                            type |-> "error"]),
        !.failed_count = self.failed_count + 1]

\* add_warning, filing the warning with the errors.
add_warning_as_error(self, row_num, field, message) ==
    [self EXCEPT
        !.errors = Append1(self.errors,
                           [row |-> row_num, field |-> field, message |-> message,
                            type |-> "warning"])]

add_warning(self, row_num, field, message) ==
    [self EXCEPT
        !.warnings = Append1(self.warnings,
                             [row |-> row_num, field |-> field, message |-> message,
                              type |-> "warning"])]

record_success(self) == [self EXCEPT !.success_count = self.success_count + 1]

get_summary(self) ==
    [total_processed |-> self.success_count + self.failed_count,
     successful |-> self.success_count,
     failed |-> self.failed_count,
     errors |-> self.errors,
     warnings |-> self.warnings,
     has_errors |-> Len(self.errors) > 0]

\* clear that empties the errors and the counters and keeps the warnings.
clear_keeps_warnings(self) ==
    [self EXCEPT !.errors = <<>>, !.success_count = 0, !.failed_count = 0]

clear(self) == ImportErrorHandler

\* The calls a handler gets: at most MaxEntries entries of a kind and
\* MaxEntries successes between two calls of clear.
MaxEntries == 2
RowNums == 1..2
EntryFields == {"book", "validation"}
EntryMessages == {"title is required"}

InitHandler ==
    /\ NoUpload /\ NoClean /\ NoSerializer /\ NoDatabase /\ NoProcess /\ NoOrder /\ NoEmployee
    /\ NoSheet /\ NoRow /\ NoImport
    /\ error_handler = ImportErrorHandler

AddError ==
    /\ Len(error_handler.errors) < MaxEntries
    /\ \E row_num \in RowNums, field \in EntryFields, message \in EntryMessages :
           error_handler' = add_error(error_handler, row_num, field, message)
    /\ UNCHANGED beyondHandler

AddWarning ==
    /\ Len(error_handler.warnings) < MaxEntries
    /\ \E row_num \in RowNums, field \in EntryFields, message \in EntryMessages :
           error_handler' = add_warning(error_handler, row_num, field, message)
    /\ UNCHANGED beyondHandler

RecordSuccess ==
    /\ error_handler.success_count < MaxEntries
    /\ error_handler' = record_success(error_handler)
    /\ UNCHANGED beyondHandler

Clear ==
    /\ error_handler' = clear(error_handler)
    /\ UNCHANGED beyondHandler

NextHandler == AddError \/ AddWarning \/ RecordSuccess \/ Clear

SpecHandler == InitHandler /\ [][NextHandler]_vars

\* C14: in every state get_summary().has_errors is true exactly when the
\* list of errors is non-empty, and a call of add_warning leaves has_errors,
\* the list of errors and the counters of successes and failures as they were.
C14_HasErrors ==
    /\ [](get_summary(error_handler).has_errors <=> error_handler.errors # <<>>)
    /\ [][AddWarning =>
            /\ get_summary(error_handler').has_errors = get_summary(error_handler).has_errors
            /\ error_handler'.errors = error_handler.errors
            /\ error_handler'.success_count = error_handler.success_count
            /\ error_handler'.failed_count = error_handler.failed_count]_vars

\* A handler with a warning and no error, and one success.
C14_Witness ==
    /\ Len(error_handler.warnings) > 0
    /\ error_handler.errors = <<>>
    /\ error_handler.success_count = 1
    /\ ~get_summary(error_handler).has_errors

\* A handler with errors and warnings.
C14_WitnessBoth ==
    /\ Len(error_handler.warnings) > 0
    /\ Len(error_handler.errors) = MaxEntries
    /\ get_summary(error_handler).has_errors
    /\ get_summary(error_handler).failed = MaxEntries

(***************************************************************************)
(* What the answer of the upload view is read by.                          *)
(***************************************************************************)
\* The view has answered a request that carries an upload.
Responded == pc = "responded" /\ file # NoFile

\* C15: the upload view answers 200, 400 or 500; it answers other than 200
\* only when the upload has no recognizable file type or the parse failed as
\* a whole (400, with an "error" entry) or an exception left the handler
\* (500); a workbook that opens and of which some sheets fail to read is
\* answered 200 with success true, the parsed data, and one error for each
\* failing sheet, naming it, in data.errors.
C15_NonSuccessOnlyOnWholeFailure ==
    Responded =>
        /\ response.status \in {200, 400, 500}
        /\ response.status = 400 =>
              /\ file_type = None \/ "error" \in DOMAIN result
              /\ "error" \in DOMAIN response.body
        /\ response.status = 500 => "raise" \in DOMAIN result
        /\ (IsWorkbook /\ file.body.open_error = None /\ FailingSheets # {}) =>
              /\ response.status = 200
              /\ response.body.success = TRUE
              /\ response.body.data.data_by_type = result.data_by_type
              /\ Len(response.body.data.sheets_info) = Len(result.sheets_info)
              /\ Len(response.body.data.errors) = Cardinality(FailingSheets)
              /\ \A i \in FailingSheets :
                     \E j \in 1..Len(response.body.data.errors) :
                         Contains(response.body.data.errors[j],
                                  "'" \o file.body.sheets[i].name \o "'")

\* A workbook of three sheets, the first of which fails: answered 200 with
\* the two others listed and filed and one error.
C15_Witness ==
    /\ Responded /\ IsWorkbook
    /\ Len(file.body.sheets) = 3 /\ FailingSheets = {1}
    /\ response.status = 200
    /\ Len(response.body.data.sheets_info) = 2
    /\ DOMAIN response.body.data.data_by_type # {}
    /\ Len(response.body.data.errors) = 1

\* An upload without a recognizable file type, answered 400.
C15_WitnessUnsupported ==
    /\ Responded /\ file_type = None
    /\ response.status = 400

\* A text no codec reads as a table, answered 400 with the error.
C15_WitnessParseFails ==
    /\ Responded /\ file_type = "csv"
    /\ response.status = 400
    /\ "error" \in DOMAIN result
    /\ response.body.error = result.error

(***************************************************************************)
(* Rows and field configurations (import_utils.NullValueProcessor,         *)
(* unified_import._get_field_configs).  A row is a dict of scalars.        *)
(***************************************************************************)
\* One field configuration; "default", "min" and "max" are keys a
\* configuration may hold.
FieldConfig(field, type, required) == [field |-> field, type |-> type, required |-> required]
WithDefault(config, default) == config @@ ("default" :> default)
WithMin(config, min) == config @@ ("min" :> min)
WithMax(config, max) == config @@ ("max" :> max)

\* `configs` of _get_field_configs, each dict in the order of its fields.
configs ==
    [author |->
        << FieldConfig("last_name", "text", TRUE),
           WithDefault(FieldConfig("first_name", "text", FALSE), Str("")),
           WithMax(WithMin(FieldConfig("birth_year", "integer", FALSE), 1), 2100),
           WithMax(WithMin(FieldConfig("death_year", "integer", FALSE), 1), 2100),
           FieldConfig("description", "text", FALSE) >>,
     book |->
        << FieldConfig("title", "text", TRUE),
           WithMin(FieldConfig("cost", "decimal", TRUE), 0),
           WithMin(FieldConfig("suggested_retail_price", "decimal", TRUE), 0),
           FieldConfig("legacy_id", "text", FALSE),
           WithDefault(FieldConfig("condition", "text", FALSE), Str("unrated")),
           WithDefault(FieldConfig("book_status", "text", FALSE), Str("processing")),
           FieldConfig("publisher", "text", FALSE),
           FieldConfig("edition", "text", FALSE) >>,
     customer |->
        << FieldConfig("first_name", "text", FALSE),
           FieldConfig("last_name", "text", FALSE),
           FieldConfig("phone_number", "text", FALSE),
           FieldConfig("mailing_address", "text", FALSE),
           WithDefault(FieldConfig("secondary_mailing_address", "text", FALSE), Str("N/A")),
           FieldConfig("city", "text", FALSE),
           FieldConfig("state", "text", FALSE),
           FieldConfig("zip_code", "text", FALSE) >>,
     employee |->
        << FieldConfig("first_name", "text", TRUE),
           FieldConfig("last_name", "text", TRUE),
           FieldConfig("phone_number", "text", TRUE),
           FieldConfig("address", "text", TRUE),
           FieldConfig("city", "text", TRUE),
           FieldConfig("zip_code", "text", TRUE),
           FieldConfig("state", "text", TRUE),
           FieldConfig("email", "text", FALSE),
           FieldConfig("group_name", "text", TRUE) >>,
     order |->
        << FieldConfig("customer_name", "text", TRUE),
           FieldConfig("employee_name", "text", TRUE),
           WithMin(FieldConfig("sale_amount", "decimal", TRUE), 0),
           WithDefault(FieldConfig("discount_amount", "decimal", FALSE), IntValue(0)),
           FieldConfig("payment_method", "text", TRUE),
           WithDefault(FieldConfig("order_status", "text", FALSE), Str("pickup")) >>]

\* configs.get(model_type, {})
_get_field_configs(model_type) ==
    IF model_type \in DOMAIN configs THEN configs[model_type] ELSE <<>>

\* dict.get(key): None for a key the dict does not hold.
Get(dict, key) == IF key \in DOMAIN dict THEN dict[key] ELSE NoneValue

\* The exception the first raising entry of a sequence of outcomes raises.
FirstRaised(outs) ==
    outs[CHOOSE i \in 1..Len(outs) :
             IsRaised(outs[i]) /\ \A j \in 1..(i - 1) : ~IsRaised(outs[j])]
AnyRaised(outs) == \E i \in 1..Len(outs) : IsRaised(outs[i])

\* process_row, one field: the cleaned value, the default in place of None.
_cleaned_or_default(cleaned, config) ==
    IF cleaned = NoneValue /\ "default" \in DOMAIN config THEN config.default ELSE cleaned

\* The values process_row has for the fields, in the order of the fields.
_processed_values(row_data, field_configs) ==
    [k \in 1..Len(field_configs) |->
        _cleaned_or_default(clean_value(Get(row_data, field_configs[k].field),
                                        field_configs[k].type),
                            field_configs[k])]

\* The dict process_row builds from the values: a None is kept for a
\* required field only.
_processed_dict(values, field_configs) ==
    [f \in {field_configs[k].field :
               k \in {j \in 1..Len(field_configs) :
                         values[j] # NoneValue \/ field_configs[j].required}} |->
        values[CHOOSE k \in 1..Len(field_configs) : field_configs[k].field = f]]

_processed(values, field_configs) ==
    IF AnyRaised(values) THEN FirstRaised(values) ELSE _processed_dict(values, field_configs)

\* NullValueProcessor.process_row: the dict, or the exception clean_value
\* raises.
process_row(row_data, field_configs) ==
    _processed(_processed_values(row_data, field_configs), field_configs)

RECURSIVE Power10(_)
\* 10 ** n
Power10(n) == IF n <= 0 THEN 1 ELSE 10 * Power10(n - 1)

\* The coefficient of a finite Decimal with its sign.
Signed(d) == IF d.sign = 1 THEN 0 - d.coeff ELSE d.coeff

\* cleaned < bound and cleaned > bound for an int or a Decimal and an int
\* bound: an order comparison with a NaN raises InvalidOperation.
_less(cleaned, bound) ==
    IF IsInt(cleaned) THEN BoolValue(cleaned.int < bound)
    ELSE IF cleaned.decimal \in {"nan", "snan"} THEN Raise("InvalidOperation")
    ELSE IF cleaned.decimal = "inf" THEN BoolValue(cleaned.sign = 1)
    ELSE IF cleaned.exp >= 0 THEN BoolValue(Signed(cleaned) * Power10(cleaned.exp) < bound)
    ELSE BoolValue(Signed(cleaned) < bound * Power10(0 - cleaned.exp))

_greater(cleaned, bound) ==
    IF IsInt(cleaned) THEN BoolValue(cleaned.int > bound)
    ELSE IF cleaned.decimal \in {"nan", "snan"} THEN Raise("InvalidOperation")
    ELSE IF cleaned.decimal = "inf" THEN BoolValue(cleaned.sign = 0)
    ELSE IF cleaned.exp >= 0 THEN BoolValue(Signed(cleaned) * Power10(cleaned.exp) > bound)
    ELSE BoolValue(Signed(cleaned) > bound * Power10(0 - cleaned.exp))

\* validate_row, one field: Errors(messages) of its violations, or the
\* exception a comparison raises.
Errors(messages) == [errors |-> messages]

_required_errors(cleaned, config) ==
    IF config.required /\ (cleaned = NoneValue \/ cleaned = Str(""))
    THEN Errors(<< config.field \o " is required" >>)
    ELSE Errors(<<>>)

\* The message of a bound that a comparison finds crossed.
_bound_errors(crossed, message) ==
    IF IsRaised(crossed) THEN crossed
    ELSE IF crossed.bool THEN Errors(<< message >>)
    ELSE Errors(<<>>)

_min_errors(cleaned, config) ==
    IF cleaned # NoneValue /\ config.type \in {"integer", "decimal"} /\ "min" \in DOMAIN config
    THEN _bound_errors(_less(cleaned, config.min),
                       config.field \o " must be at least " \o ToString(config.min))
    ELSE Errors(<<>>)

_max_errors(cleaned, config) ==
    IF cleaned # NoneValue /\ config.type \in {"integer", "decimal"} /\ "max" \in DOMAIN config
    THEN _bound_errors(_greater(cleaned, config.max),
                       config.field \o " must be at most " \o ToString(config.max))
    ELSE Errors(<<>>)

\* The messages of one field, from those of its three checks.
_field_errors(required, min, max) ==
    IF IsRaised(min) THEN min
    ELSE IF IsRaised(max) THEN max
    ELSE Errors(required.errors \o min.errors \o max.errors)

_validate_field(cleaned, config) ==
    IF IsRaised(cleaned) THEN cleaned
    ELSE _field_errors(_required_errors(cleaned, config), _min_errors(cleaned, config),
                       _max_errors(cleaned, config))

\* The messages of the fields, in the order of the fields.
_validated_fields(row_data, field_configs) ==
    [k \in 1..Len(field_configs) |->
        _validate_field(clean_value(Get(row_data, field_configs[k].field),
                                    field_configs[k].type),
                        field_configs[k])]

_validated(per_field) ==
    IF AnyRaised(per_field) THEN FirstRaised(per_field)
    ELSE Errors(JoinSeq([k \in 1..Len(per_field) |-> per_field[k].errors], 1, Len(per_field)))

\* NullValueProcessor.validate_row: [errors |-> messages] (the row is valid
\* when there is none), or the exception a comparison raises.
validate_row(row_data, field_configs) == _validated(_validated_fields(row_data, field_configs))

(***************************************************************************)
(* The import serializers (serializers.py), with the field validation of   *)
(* the REST framework they are built on.  The data of a serializer is a    *)
(* dict of scalars; a field gives Value(v), Invalid(message) or Skip.      *)
(* The data of the model hold no publication_date, author_names or         *)
(* condition_notes: these fields are skipped.                              *)
(***************************************************************************)
Value(v) == [value |-> v]
Invalid(message) == [invalid |-> message]
Skip == [skip |-> TRUE]
IsValue(out) == DOMAIN out = {"value"}
IsInvalid(out) == DOMAIN out = {"invalid"}

\* The marker of a key the data do not hold (fields.empty).
Missing == [missing |-> TRUE]

\* field.get_value(data)
Primitive(data, name) == IF name \in DOMAIN data THEN data[name] ELSE Missing

\* The declaration of a field of a serializer.
CharField(name, required, allow_null, allow_blank) ==
    [name |-> name, kind |-> "char", required |-> required, allow_null |-> allow_null,
     allow_blank |-> allow_blank]
DecimalField(name) ==
    [name |-> name, kind |-> "decimal", required |-> TRUE, allow_null |-> FALSE,
     allow_blank |-> FALSE]
FlexibleIntegerField(name) ==
    [name |-> name, kind |-> "integer", required |-> FALSE, allow_null |-> TRUE,
     allow_blank |-> FALSE]
WithMaxLength(field, max_length) == field @@ ("max_length" :> max_length)

\* Field.validate_empty_values for a key the data do not hold.
_validate_missing(field) ==
    IF field.required THEN Invalid("This field is required.")
    ELSE IF "default" \in DOMAIN field THEN Value(field.default)
    ELSE Skip

\* Field.validate_empty_values for None.
_validate_null(field) ==
    IF field.allow_null THEN Value(NoneValue) ELSE Invalid("This field may not be null.")

\* CharField.to_internal_value and the validator of max_length.
_char_value(field, text) ==
    IF "max_length" \in DOMAIN field /\ Len(text) > field.max_length
    THEN Invalid("Ensure this field has no more than " \o ToString(field.max_length)
                     \o " characters.")
    ELSE Value(Str(text))

\* CharField.run_validation
_char_validation(field, data) ==
    IF data = Missing THEN _validate_missing(field)
    ELSE IF IsStr(data) /\ Strip(data.str) = ""
    THEN (IF field.allow_blank THEN Value(Str(""))
          ELSE Invalid("This field may not be blank."))
    ELSE IF data = NoneValue THEN _validate_null(field)
    ELSE IF IsBool(data) \/ IsDecimal(data) THEN Invalid("Not a valid string.")
    ELSE _char_value(field, Strip(str(data)))

\* len(value.as_tuple().digits)
NumDigits(coeff) == Len(ToString(coeff))

\* The digits of a finite Decimal in total, before and after the point
\* (DecimalField.validate_precision).
TotalDigits(d) ==
    IF d.exp >= 0 THEN NumDigits(d.coeff) + d.exp
    ELSE IF NumDigits(d.coeff) > 0 - d.exp THEN NumDigits(d.coeff)
    ELSE 0 - d.exp
DecimalPlaces(d) == IF d.exp >= 0 THEN 0 ELSE 0 - d.exp
WholeDigits(d) == TotalDigits(d) - DecimalPlaces(d)

\* The digits the Decimal fields of the models hold.
max_digits == 11
decimal_places == 2

\* value.quantize(Decimal(".01"))
quantize(d) ==
    DecimalValue("finite", d.sign, d.coeff * Power10(d.exp + decimal_places),
                 0 - decimal_places)

\* DecimalField.to_internal_value on the Decimal the text writes.
_decimal_value(d) ==
    IF IsRaised(d) \/ d.decimal # "finite" THEN Invalid("A valid number is required.")
    ELSE IF TotalDigits(d) > max_digits
    THEN Invalid("Ensure that there are no more than 11 digits in total.")
    ELSE IF DecimalPlaces(d) > decimal_places
    THEN Invalid("Ensure that there are no more than 2 decimal places.")
    ELSE IF WholeDigits(d) > max_digits - decimal_places
    THEN Invalid("Ensure that there are no more than 9 digits before the decimal point.")
    ELSE Value(quantize(d))

\* DecimalField.run_validation
_decimal_validation(field, data) ==
    IF data = Missing THEN _validate_missing(field)
    ELSE IF data = NoneValue THEN _validate_null(field)
    ELSE _decimal_value(_decimal_of(data))

\* FlexibleIntegerField.to_internal_value
_integer_value(n) ==
    IF IsRaised(n) THEN Invalid("A valid integer is required.") ELSE Value(n)

\* Field.run_validation of a FlexibleIntegerField
_integer_validation(field, data) ==
    IF data = Missing THEN _validate_missing(field)
    ELSE IF data = NoneValue THEN _validate_null(field)
    ELSE IF data = Str("") THEN Value(NoneValue)
    ELSE _integer_value(_int_of_text(Strip(str(data))))

\* field.run_validation(primitive_value)
run_validation(field, data) ==
    IF field.kind = "char" THEN _char_validation(field, data)
    ELSE IF field.kind = "decimal" THEN _decimal_validation(field, data)
    ELSE _integer_validation(field, data)

\* `not value` for what a field gives.
Falsy(v) == v = NoneValue \/ v = Str("") \/ v = IntValue(0) \/ v = BoolValue(FALSE)

\* Book.Condition and Book.BookStatus: the values; the labels are the values
\* with a capital.
Conditions == {"superb", "excellent", "good", "fair", "poor", "damaged", "unrated"}
BookStatuses == {"sold", "reserved", "available", "processing"}

\* validate_<field> of BookImportSerializer
validate_title(v) ==
    IF Falsy(v) \/ Strip(v.str) = "" THEN Invalid("Book title is required")
    ELSE Value(Str(Strip(v.str)))

validate_cost(v) ==
    IF v = NoneValue \/ v = Str("") THEN Invalid("Cost is required")
    ELSE IF _less(v, 0).bool THEN Invalid("Cost cannot be negative")
    ELSE Value(v)

validate_suggested_retail_price(v) ==
    IF v = NoneValue \/ v = Str("") THEN Invalid("Suggested retail price is required")
    ELSE IF _less(v, 0).bool THEN Invalid("Price cannot be negative")
    ELSE Value(v)

validate_condition(v) ==
    IF Falsy(v) THEN Value(Str("unrated"))
    ELSE IF Strip(Lower(str(v))) \in Conditions THEN Value(Str(Strip(Lower(str(v)))))
    ELSE Invalid("Invalid condition: " \o str(v))

validate_book_status(v) ==
    IF Falsy(v) THEN Value(Str("available"))
    ELSE IF Strip(Lower(str(v))) \in BookStatuses THEN Value(Str(Strip(Lower(str(v)))))
    ELSE Invalid("Invalid book status: " \o str(v))

\* The year of date.today().
ThisYear == 2026

\* validate_<field> of AuthorImportSerializer
validate_last_name(v) ==
    IF Falsy(v) \/ Strip(v.str) = "" THEN Invalid("Author last name is required")
    ELSE Value(Str(Strip(v.str)))

validate_birth_year(v) ==
    IF v = NoneValue \/ v = Str("") THEN Value(NoneValue)
    ELSE IF v.int < 1 \/ v.int > ThisYear
    THEN Invalid("Invalid birth year: " \o ToString(v.int))
    ELSE Value(v)

validate_death_year(v) ==
    IF v = NoneValue \/ v = Str("") THEN Value(NoneValue)
    ELSE IF v.int < 1 \/ v.int > ThisYear + 1
    THEN Invalid("Invalid death year: " \o ToString(v.int))
    ELSE Value(v)

\* The fields of the two serializers, in the order of Meta.fields.
BookImportFields ==
    << WithMaxLength(CharField("legacy_id", FALSE, TRUE, TRUE), 8),
       WithMaxLength(CharField("title", TRUE, FALSE, FALSE), 500),
       DecimalField("cost"),
       DecimalField("suggested_retail_price"),
       CharField("condition", FALSE, FALSE, TRUE),
       WithMaxLength(CharField("condition_notes", FALSE, TRUE, TRUE), 1000),
       CharField("publication_date", FALSE, TRUE, FALSE),
       WithMaxLength(CharField("publisher", FALSE, TRUE, TRUE), 100),
       WithMaxLength(CharField("edition", FALSE, TRUE, TRUE), 50),
       CharField("book_status", FALSE, TRUE, TRUE),
       CharField("author_names", FALSE, FALSE, TRUE) >>

AuthorImportFields ==
    << WithMaxLength(CharField("last_name", TRUE, FALSE, FALSE), 100),
       CharField("first_name", FALSE, FALSE, TRUE) @@ ("default" :> Str("")),
       FlexibleIntegerField("birth_year"),
       FlexibleIntegerField("death_year"),
       WithMaxLength(CharField("description", FALSE, TRUE, TRUE), 1000) >>

\* validate_method(validated_value) of a field, for the fields that have
\* one.
_validate_method(name, v) ==
    IF name = "title" THEN validate_title(v)
    ELSE IF name = "cost" THEN validate_cost(v)
    ELSE IF name = "suggested_retail_price" THEN validate_suggested_retail_price(v)
    ELSE IF name = "condition" THEN validate_condition(v)
    ELSE IF name = "book_status" THEN validate_book_status(v)
    ELSE IF name = "last_name" THEN validate_last_name(v)
    ELSE IF name = "birth_year" THEN validate_birth_year(v)
    ELSE IF name = "death_year" THEN validate_death_year(v)
    ELSE Value(v)

\* One turn of the loop of Serializer.to_internal_value.
_validated_value(name, out) == IF IsValue(out) THEN _validate_method(name, out.value) ELSE out

\* What the fields give for the data, in the order of the fields.
_field_outcomes(fields, data) ==
    [k \in 1..Len(fields) |->
        _validated_value(fields[k].name,
                         run_validation(fields[k], Primitive(data, fields[k].name)))]

\* serializer.errors and serializer.validated_data after the fields.
_serializer_errors(fields, outs) ==
    [n \in {fields[k].name : k \in {j \in 1..Len(fields) : IsInvalid(outs[j])}} |->
        outs[CHOOSE k \in 1..Len(fields) : fields[k].name = n].invalid]
_validated_data(fields, outs) ==
    [n \in {fields[k].name : k \in {j \in 1..Len(fields) : IsValue(outs[j])}} |->
        outs[CHOOSE k \in 1..Len(fields) : fields[k].name = n].value]

\* AuthorImportSerializer.validate(attrs)
_author_validate(attrs) ==
    IF /\ ~Falsy(Get(attrs, "birth_year")) /\ ~Falsy(Get(attrs, "death_year"))
       /\ attrs.death_year.int < attrs.birth_year.int
    THEN Invalid("Death year cannot be before birth year")
    ELSE Value(IF Get(attrs, "first_name") = NoneValue
               THEN ("first_name" :> Str("")) @@ attrs
               ELSE attrs)

\* What is_valid() leaves: [valid, errors, validated_data].
Rejected(field_errors) == [valid |-> FALSE, errors |-> field_errors, validated_data |-> EmptyDict]
Accepted(validated_data) ==
    [valid |-> TRUE, errors |-> EmptyDict, validated_data |-> validated_data]

_after_validate(out) ==
    IF IsInvalid(out) THEN Rejected("non_field_errors" :> out.invalid) ELSE Accepted(out.value)

_book_is_valid(field_errors, attrs) ==
    IF DOMAIN field_errors # {} THEN Rejected(field_errors) ELSE Accepted(attrs)

_author_is_valid(field_errors, attrs) ==
    IF DOMAIN field_errors # {} THEN Rejected(field_errors)
    ELSE _after_validate(_author_validate(attrs))

_book_checked(outs) ==
    _book_is_valid(_serializer_errors(BookImportFields, outs),
                   _validated_data(BookImportFields, outs))

_author_checked(outs) ==
    _author_is_valid(_serializer_errors(AuthorImportFields, outs),
                     _validated_data(AuthorImportFields, outs))

\* BookImportSerializer(data=data).is_valid()
BookImportSerializer(data) == _book_checked(_field_outcomes(BookImportFields, data))

\* AuthorImportSerializer(data=data).is_valid()
AuthorImportSerializer(data) == _author_checked(_field_outcomes(AuthorImportFields, data))

\* Book.objects.create(**validated_data): the fields the data do not hold
\* get the defaults of the model.
BookDefaults ==
    [legacy_id |-> NoneValue, condition |-> Str("unrated"), condition_notes |-> NoneValue,
     publication_date |-> NoneValue, publisher |-> NoneValue, edition |-> Str("N/A"),
     book_status |-> Str("processing")]
_create_book(validated_data) == validated_data @@ BookDefaults

\* Author.objects.create(**validated_data)
AuthorDefaults ==
    [first_name |-> Str(""), birth_year |-> NoneValue, death_year |-> NoneValue,
     description |-> NoneValue]
_create_author(validated_data) == validated_data @@ AuthorDefaults

(***************************************************************************)
(* A book imported through its serializer:                                 *)
(*   serializer = BookImportSerializer(data=data)                          *)
(*   if serializer.is_valid(): book = serializer.save()                    *)
(***************************************************************************)
\* A dict without the keys whose value is Missing.
Present(d) == [k \in {n \in DOMAIN d : d[n] # Missing} |-> d[k]]

\* The data a book is imported with.
BookData ==
    { Present(d) :
        d \in [title : {Str("Test Book")},
               cost : {Str("10.50"), Str("-1"), Str("12.345")},
               suggested_retail_price : {Str("19.99"), NoneValue},
               condition : {Missing, NoneValue, Str(""), Str("Good"), Str("mint")},
               book_status : {Missing, NoneValue, Str(""), Str("  "), Str("Sold"),
                              Str("processing"), Str("lost")},
               publisher : {Missing, Str("null")},
               edition : {Missing, Str("")}] }

InitSerializer ==
    /\ NoUpload /\ NoClean /\ NoHandler /\ NoDatabase /\ NoProcess /\ NoOrder /\ NoEmployee
    /\ NoSheet /\ NoRow /\ NoImport
    /\ serializer_data \in BookData
    /\ serializer = Pending

\* serializer.is_valid() and, for valid data, serializer.save()
SaveBook ==
    /\ serializer = Pending
    /\ serializer' = BookImportSerializer(serializer_data)
    /\ database' = IF serializer'.valid
                   THEN [database EXCEPT
                            !.books = Append1(@, _create_book(serializer'.validated_data))]
                   ELSE database
    /\ UNCHANGED serializer_data
    /\ UNCHANGED beyondSerializer

NextSerializer == SaveBook

SpecSerializer == InitSerializer /\ [][NextSerializer]_vars

\* The value is null or empty.
NullOrEmpty(v) == v = NoneValue \/ v = Str("")

\* The other fields of the data are those of a book that is created.
GoodBook(data) ==
    /\ BookImportSerializer([title |-> Str("Test Book"), cost |-> data.cost,
                             suggested_retail_price |-> Get(data, "suggested_retail_price")]).valid

\* C20: a book imported through BookImportSerializer with a null or empty
\* book_status is created with the status "processing", and one imported
\* with a null or empty condition with the condition "unrated": the
\* defaults of the field configuration of the book.
C20_ImportDefaults ==
    (serializer # Pending /\ GoodBook(serializer_data)) =>
        /\ (/\ "book_status" \in DOMAIN serializer_data
            /\ NullOrEmpty(serializer_data.book_status)
            /\ Get(serializer_data, "condition") \in {Str(""), Str("Good")}) =>
              /\ serializer.valid
              /\ Len(database.books) = 1
              /\ database.books[1].book_status = Str("processing")
              /\ Str("processing") =
                     configs.book[CHOOSE k \in 1..Len(configs.book) :
                                      configs.book[k].field = "book_status"].default
        /\ (/\ "condition" \in DOMAIN serializer_data
            /\ NullOrEmpty(serializer_data.condition)
            /\ Get(serializer_data, "book_status") \in {Missing, Str("processing")}) =>
              /\ serializer.valid
              /\ Len(database.books) = 1
              /\ database.books[1].condition = Str("unrated")


(***************************************************************************)
(* The process step (unified_import.unified_import_process and             *)
(* _import_records_by_type).  The body of the request is the dict          *)
(* json.loads gives, or the exception it raises.  data_by_type is a dict   *)
(* in the order of its keys: a sequence of [type, records].  The mappings  *)
(* of the body are Missing, None, or a dict from a model type to a dict    *)
(* from a model field to a source column.                                  *)
(***************************************************************************)
\* The keys of serializer_map.
serializer_map == {"author", "book", "customer", "employee", "order"}

\* serializer_class(data=mapped_data).is_valid(); the requests of the
\* model hold authors and books.
_serializer_checked(model_type, mapped_data) ==
    IF model_type = "author" THEN AuthorImportSerializer(mapped_data)
    ELSE BookImportSerializer(mapped_data)

\* serializer.save()
_saved(db, model_type, validated_data) ==
    IF model_type = "author"
    THEN [db EXCEPT !.authors = Append1(@, _create_author(validated_data))]
    ELSE [db EXCEPT !.books = Append1(@, _create_book(validated_data))]

\* mapped_data of a record: the model fields whose source column the
\* record holds.
_mapped_data(record, type_mappings) ==
    [f \in {g \in DOMAIN type_mappings : type_mappings[g] \in DOMAIN record} |->
        record[type_mappings[f]]]

\* not str(v).strip(); the text of a Decimal is never blank.
_blank(v) == ~IsDecimal(v) /\ Strip(str(v)) = ""

\* not any(str(v).strip() for v in mapped_data.values())
_is_empty(mapped_data) == \A f \in DOMAIN mapped_data : _blank(mapped_data[f])

\* f"Validation error: {serializer.errors}", the errors kept as a dict
_validation_error(field_errors) == [text |-> "Validation error: ", errors |-> field_errors]

\* One record after is_valid(), the errors of an invalid one dropped.
_import_checked_unrecorded(model_type, checked, counts) ==
    IF checked.valid
    THEN [counts EXCEPT !.imported = @ + 1,
                        !.database = _saved(@, model_type, checked.validated_data)]
    ELSE counts

\* One record after is_valid(): saved and counted, or its errors kept.
_import_checked(model_type, checked, counts) ==
    IF checked.valid
    THEN [counts EXCEPT !.imported = @ + 1,
                        !.database = _saved(@, model_type, checked.validated_data)]
    ELSE [counts EXCEPT !.errors = Append1(@, _validation_error(checked.errors))]

\* The body of the loop of _import_records_by_type.
_import_record(model_type, mapped_data, counts) ==
    IF _is_empty(mapped_data) THEN [counts EXCEPT !.skipped = @ + 1]
    ELSE _import_checked(model_type, _serializer_checked(model_type, mapped_data), counts)

\* A JSON array where a dict of mappings is expected.
ListValue(items) == [list |-> items]
IsListValue(v) == DOMAIN v = {"list"}

\* f"Import error for {model_type} record: {str(e)}"
_import_error(model_type, e) ==
    [text |-> "Import error for " \o model_type \o " record: ", exception |-> e]

\* The try of the loop of _import_records_by_type: type_mappings.items()
\* raises AttributeError for mappings that are a list, and the except
\* clause keeps the message.
_import_tried(model_type, record, type_mappings, counts) ==
    IF IsListValue(type_mappings)
    THEN [counts EXCEPT !.errors = Append1(@, _import_error(model_type, "AttributeError"))]
    ELSE _import_record(model_type, _mapped_data(record, type_mappings), counts)

RECURSIVE _import_records(_, _, _, _, _)
\* for record in records, from the i-th on
_import_records(model_type, records, type_mappings, i, counts) ==
    IF i > Len(records) THEN counts
    ELSE _import_records(model_type, records, type_mappings, i + 1,
                         _import_tried(model_type, records[i], type_mappings, counts))

\* mappings.get(model_type, {})
_type_mappings(column_mappings, model_type) ==
    IF model_type \in DOMAIN column_mappings THEN column_mappings[model_type] ELSE EmptyDict

\* _import_records_by_type: [imported, skipped, errors] with the database
\* the saves leave, or the exception it raises: ValueError for a type
\* without a serializer, AttributeError for mappings that are None.
_import_records_by_type(model_type, records, column_mappings, db) ==
    IF model_type \notin serializer_map THEN Raise("ValueError")
    ELSE IF column_mappings = NoneValue THEN Raise("AttributeError")
    ELSE _import_records(model_type, records, _type_mappings(column_mappings, model_type), 1,
                         [imported |-> 0, skipped |-> 0, errors |-> <<>>, database |-> db])

RECURSIVE _add_errors(_, _, _, _, _)
\* for error in validation_errors: error_handler.add_error(i + 1, model_type, error)
_add_errors(handler, row_num, model_type, validation_errors, k) ==
    IF k > Len(validation_errors) THEN handler
    ELSE _add_errors(add_error(handler, row_num, model_type, validation_errors[k]),
                     row_num, model_type, validation_errors, k + 1)

RECURSIVE _process_records(_, _, _, _, _)
\* One record after validate_row: the exception ends the loop, errors go to
\* the handler, a valid record joins processed_records.
_validated_record(model_type, records, field_configs, i, rows, processed, validation) ==
    IF IsRaised(validation) THEN [rows EXCEPT !.raised = validation]
    ELSE IF Len(validation.errors) > 0
    THEN _process_records(model_type, records, field_configs, i + 1,
                          [rows EXCEPT !.error_handler =
                               _add_errors(@, i, model_type, validation.errors, 1)])
    ELSE _process_records(model_type, records, field_configs, i + 1,
                          [rows EXCEPT !.processed_records = Append1(@, processed)])

\* One record after process_row.
_processed_record(model_type, records, field_configs, i, rows, processed) ==
    IF IsRaised(processed) THEN [rows EXCEPT !.raised = processed]
    ELSE _validated_record(model_type, records, field_configs, i, rows, processed,
                           validate_row(processed, field_configs))

\* for i, record in enumerate(records), from the record of row number i
\* (i + 1 of the code) on
_process_records(model_type, records, field_configs, i, rows) ==
    IF i > Len(records) THEN rows
    ELSE _processed_record(model_type, records, field_configs, i, rows,
                           process_row(records[i], field_configs))

\* str(e) of the exceptions the loop over the types catches
_str_exception(e, model_type) ==
    IF e.raise = "ValueError" THEN "Unknown model type: " \o model_type
    ELSE IF e.raise = "AttributeError" THEN "'NoneType' object has no attribute 'get'"
    ELSE IF e.raise = "OverflowError" THEN "cannot convert float infinity to integer"
    ELSE IF e.raise = "InvalidOperation" THEN "[<class 'decimal.InvalidOperation'>]"
    ELSE e.raise

\* f"Error importing {model_type} records: {str(e)}"
_error_msg(model_type, e) ==
    "Error importing " \o model_type \o " records: " \o _str_exception(e, model_type)

\* What the import of the processed records of a type leaves.  A result
\* with `aliased` holds the list error_handler.errors itself.
_after_import(model_type, acc, imported) ==
    IF IsRaised(imported)
    THEN [acc EXCEPT !.errors = Append1(@, _error_msg(model_type, imported))]
    ELSE [acc EXCEPT
            !.results = (model_type :> [imported |-> imported.imported,
                                        skipped |-> imported.skipped,
                                        errors |-> imported.errors,
                                        aliased |-> FALSE]) @@ @,
            !.database = imported.database]

_after_rows(model_type, column_mappings, acc, rows) ==
    IF rows.raised # NoneValue
    THEN [acc EXCEPT !.error_handler = rows.error_handler,
                     !.errors = Append1(@, _error_msg(model_type, rows.raised))]
    ELSE IF Len(rows.processed_records) > 0
    THEN _after_import(model_type, [acc EXCEPT !.error_handler = rows.error_handler],
                       _import_records_by_type(model_type, rows.processed_records,
                                               column_mappings, acc.database))
    ELSE [acc EXCEPT
            !.error_handler = rows.error_handler,
            !.results = (model_type :> [imported |-> 0, skipped |-> 0, errors |-> <<>>,
                                        aliased |-> TRUE]) @@ @]

\* The body of the loop over the types.
_process_type(model_type, records, column_mappings, acc) ==
    IF Len(records) = 0 THEN acc
    ELSE _after_rows(model_type, column_mappings, acc,
                     _process_records(model_type, records, _get_field_configs(model_type), 1,
                                      [error_handler |-> acc.error_handler,
                                       processed_records |-> <<>>,
                                       raised |-> NoneValue]))

RECURSIVE _process_types(_, _, _, _)
\* for model_type, records in data.get("data_by_type", {}).items(), from
\* the k-th on
_process_types(data_by_type, column_mappings, k, acc) ==
    IF k > Len(data_by_type) THEN acc
    ELSE _process_types(data_by_type, column_mappings, k + 1,
                        _process_type(data_by_type[k].type, data_by_type[k].records,
                                      column_mappings, acc))

\* data.get(key, default)
GetOr(dict, key, default) == IF key \in DOMAIN dict THEN dict[key] ELSE default

\* The results as the response shows them: a result that holds the list of
\* the handler shows what the list holds in the end.
_shown_results(results, handler) ==
    [t \in DOMAIN results |->
        [imported |-> results[t].imported, skipped |-> results[t].skipped,
         errors |-> IF results[t].aliased THEN handler.errors ELSE results[t].errors]]

\* import_results with the summary, as the response of the view, and the
\* database the step leaves.
_import_results(data, acc, summary) ==
    [response |->
        JsonResponse([success |-> ~summary.has_errors,
                      file_type |-> GetOr(data, "file_type", "unknown"),
                      results |-> _shown_results(acc.results, acc.error_handler),
                      errors |-> acc.errors,
                      summary |-> summary], 200),
     database |-> acc.database]

_processed_types(data, acc) == _import_results(data, acc, get_summary(acc.error_handler))

\* unified_import_process on the body json.loads gives (data), with the
\* database db: the response and the database left.
unified_import_process(data, db) ==
    IF IsRaised(data)
    THEN [response |-> JsonResponse([success |-> FALSE, error |-> "Import error: " \o data.raise],
                                    500),
          database |-> db]
    ELSE _processed_types(data,
                          _process_types(GetOr(data, "data_by_type", <<>>),
                                         GetOr(data, "mappings", EmptyDict), 1,
                                         [error_handler |-> ImportErrorHandler,
                                          results |-> EmptyDict,
                                          errors |-> <<>>,
                                          database |-> db]))


(***************************************************************************)
(* The requests of the process step.                                       *)
(***************************************************************************)
\* The records of a type: one that is valid, one with a violation, one on
\* which the processor raises an exception.
AuthorRecords ==
    { [last_name |-> Str("Austen"), first_name |-> Str("Jane"), birth_year |-> Str("1775")],
      [last_name |-> Str(""), first_name |-> Str("Jane")],
      [last_name |-> Str("Poe"), birth_year |-> NonFinite("inf")] }
BookRecords ==
    { [title |-> Str("Emma"), cost |-> Str("10.50"), suggested_retail_price |-> Str("19.99")],
      [title |-> Str("Emma"), cost |-> Str("-1"), suggested_retail_price |-> Str("19.99")],
      [title |-> Str("Emma"), cost |-> Str("sNaN"), suggested_retail_price |-> Str("19.99")] }
WidgetRecords == { [name |-> Str("gear")] }

MaxRecords == 2

\* The items of data_by_type.
TypedRecords ==
    [type : {"author"}, records : SeqsUpTo(AuthorRecords, MaxRecords)]
        \cup [type : {"book"}, records : SeqsUpTo(BookRecords, MaxRecords)]
        \cup [type : {"widget"}, records : SeqsUpTo(WidgetRecords, MaxRecords)]

\* data_by_type: one item, or two items of two types.
DataByType ==
    { << a >> : a \in TypedRecords }
        \cup { << p[1], p[2] >> :
                   p \in {q \in TypedRecords \X TypedRecords : q[1].type # q[2].type} }

\* The mappings that map every field of a record to the column of its name.
AuthorMappings ==
    [last_name |-> "last_name", first_name |-> "first_name", birth_year |-> "birth_year"]
BookMappings ==
    [title |-> "title", cost |-> "cost", suggested_retail_price |-> "suggested_retail_price"]

\* The mappings of a body: none, null, those of both types, those of the
\* authors only, that of the first name of the authors only.
Mappings ==
    { Missing, NoneValue, [author |-> AuthorMappings, book |-> BookMappings],
      [author |-> AuthorMappings], [author |-> [first_name |-> "first_name"]] }

\* The body with its mappings, when it has some.
Body(data_by_type, column_mappings) ==
    IF column_mappings = Missing
    THEN [file_type |-> "csv", data_by_type |-> data_by_type]
    ELSE [file_type |-> "csv", data_by_type |-> data_by_type, mappings |-> column_mappings]

\* The bodies of the requests: the dicts, and a text json.loads rejects.
Bodies ==
    { Body(d, m) : d \in DataByType, m \in Mappings } \cup { Raise("JSONDecodeError") }

InitProcess ==
    /\ NoUpload /\ NoClean /\ NoHandler /\ NoSerializer /\ NoDatabase /\ NoOrder /\ NoEmployee
    /\ NoSheet /\ NoRow /\ NoImport
    /\ request_body \in Bodies
    /\ process_response = Pending

\* The view answers the request.
Process ==
    /\ process_response = Pending
    /\ \E out \in {unified_import_process(request_body, database)} :
           /\ process_response' = out.response
           /\ database' = out.database
    /\ UNCHANGED request_body
    /\ UNCHANGED beyondProcess

NextProcess == Process

SpecProcess == InitProcess /\ [][NextProcess]_vars

\* The request is answered with the results of the types.
Processed == process_response # Pending /\ process_response.status = 200

\* The body has no mapping for the type.
NoMappingFor(data, model_type) ==
    \/ "mappings" \notin DOMAIN data
    \/ data.mappings # NoneValue /\ model_type \notin DOMAIN data.mappings

\* The processor raises an exception on the record.
RaisesOn(record, field_configs) ==
    \/ IsRaised(process_row(record, field_configs))
    \/ IsRaised(validate_row(process_row(record, field_configs), field_configs))

\* The numbers of the records of an item that pass the validation.
ValidRecords(item) ==
    {i \in 1..Len(item.records) :
        /\ ~RaisesOn(item.records[i], _get_field_configs(item.type))
        /\ validate_row(process_row(item.records[i], _get_field_configs(item.type)),
                        _get_field_configs(item.type)).errors = <<>>}

\* The processor raises no exception on a record of the item.
NoneRaises(item) ==
    \A i \in 1..Len(item.records) : ~RaisesOn(item.records[i], _get_field_configs(item.type))

\* C16: the mappings of the process step are optional: of a type the body
\* has no mapping for, every record that passes the validation is handed to
\* the creator of the records of the type and counted as imported or as an
\* error, none is counted as skipped.
C16_MappingsOptional ==
    Processed =>
        \A k \in 1..Len(request_body.data_by_type) :
            (/\ request_body.data_by_type[k].type \in {"author", "book"}
             /\ NoMappingFor(request_body, request_body.data_by_type[k].type)
             /\ NoneRaises(request_body.data_by_type[k])
             /\ ValidRecords(request_body.data_by_type[k]) # {}) =>
                /\ request_body.data_by_type[k].type \in DOMAIN process_response.body.results
                /\ process_response.body.results[request_body.data_by_type[k].type].skipped = 0
                /\ process_response.body.results[request_body.data_by_type[k].type].imported
                     + Len(process_response.body.results[request_body.data_by_type[k].type].errors)
                   = Cardinality(ValidRecords(request_body.data_by_type[k]))


\* The messages validate_row has for one field of a processed record.
FieldMessages(processed, config) ==
    _validate_field(clean_value(Get(processed, config.field), config.type), config).errors

\* The entries of the handler hold one of the row, the field and the
\* message.
HasEntry(entries, row_num, field, message) ==
    \E e \in 1..Len(entries) :
        entries[e] = [row |-> row_num, field |-> field, message |-> message, type |-> "error"]

\* Every violation of the i-th record of the item has its entry.
ViolationsRecorded(item, i, field_configs, entries) ==
    \A c \in 1..Len(field_configs) :
        \A j \in 1..Len(FieldMessages(process_row(item.records[i], field_configs),
                                      field_configs[c])) :
            HasEntry(entries, i, field_configs[c].field,
                     FieldMessages(process_row(item.records[i], field_configs),
                                   field_configs[c])[j])

\* The records of the item that pass the validation are all handed to the
\* creator of the records: each is counted.
ValidHandedOn(item, results) ==
    /\ item.type \in DOMAIN results
    /\ results[item.type].imported + results[item.type].skipped
         + Len(results[item.type].errors) = Cardinality(ValidRecords(item))

\* C17: in the process step a row that fails the validation does not abort
\* its siblings: each violation adds an error entry with the index of the
\* row and the name of the failing field, and every other row of the type
\* is validated and, when valid, handed to the creation of the records.
C17_SiblingsNotAborted ==
    (Processed /\ Get(request_body, "mappings") # NoneValue) =>
        \A k \in 1..Len(request_body.data_by_type) :
            request_body.data_by_type[k].type \in {"author", "book"} =>
                /\ \A i \in 1..Len(request_body.data_by_type[k].records) :
                       (~RaisesOn(request_body.data_by_type[k].records[i],
                                  _get_field_configs(request_body.data_by_type[k].type)) =>
                           ViolationsRecorded(request_body.data_by_type[k], i,
                                              _get_field_configs(request_body.data_by_type[k].type),
                                              process_response.body.summary.errors))
                /\ (ValidRecords(request_body.data_by_type[k]) # {} =>
                       ValidHandedOn(request_body.data_by_type[k],
                                     process_response.body.results))


(***************************************************************************)
(* The orders (models.Order) and the order-close view                      *)
(* (views/orders.OrderCloseView).  An amount is a number of cents, a date  *)
(* a number of days.                                                       *)
(***************************************************************************)
\* A date, where a field may also hold None.
Date(day) == [date |-> day]

\* Order.OrderStatus
OrderStatuses == {"to_ship", "pickup", "shipped", "picked_up"}

RECURSIVE _sum(_, _)
\* sum((book.suggested_retail_price for book in self.books.all()), Decimal("0.00"))
_sum(book_rows, ids) ==
    IF ids = {} THEN 0
    ELSE _sum(book_rows, ids \ {CHOOSE b \in ids : TRUE})
             + book_rows[CHOOSE b \in ids : TRUE].suggested_retail_price

\* amount = total - discount; if amount < 0: amount = Decimal("0.00")
_amount(total, discount) == IF total - discount < 0 THEN 0 ELSE total - discount

\* Order.save: an order with books gets its sale_amount from their prices.
Order_save(self, book_rows) ==
    IF self.books # {}
    THEN [self EXCEPT !.sale_amount = _amount(_sum(book_rows, self.books), self.discount_amount)]
    ELSE self

\* The books after the loop of completed_order: those of the order are sold.
_books_sold(book_rows, ids) ==
    [b \in DOMAIN book_rows |->
        IF b \in ids THEN [book_rows[b] EXCEPT !.book_status = "sold"] ELSE book_rows[b]]

\* The status completed_order gives, every order becoming picked up.
_completed_status_picked_up(order_status) == "picked_up"

\* The status completed_order gives.
_completed_status(order_status) ==
    IF order_status = "to_ship" THEN "shipped" ELSE "picked_up"

\* Order.completed_order: the order it leaves, the books being sold.
completed_order(self, book_rows, day) ==
    Order_save([self EXCEPT !.delivery_pickup_date = Date(day),
                            !.order_status = _completed_status(@)],
               _books_sold(book_rows, self.books))

\* The orders and the books of the shop when the view is first asked.
MaxDay == 3
OrderIds == {1, 2}
BookIds == {1, 2}
Prices == [b \in BookIds |-> 1000 + 1500 * (b - 1)]

InitialBooks ==
    { [b \in BookIds |-> [book_status |-> st[b], suggested_retail_price |-> Prices[b]]] :
        st \in [BookIds -> {"available", "reserved", "sold"}] }

\* The date of delivery an order of the status starts with.
InitialDate(order_status) ==
    IF order_status \in {"shipped", "picked_up"} THEN Date(0) ELSE NoneValue

InitialOrders ==
    { (1 :> [order_status |-> o.order_status,
             delivery_pickup_date |-> InitialDate(o.order_status),
             sale_amount |-> o.sale_amount, discount_amount |-> o.discount_amount,
             books |-> o.books])
      @@ (2 :> [order_status |-> p.order_status, delivery_pickup_date |-> NoneValue,
                sale_amount |-> 2500, discount_amount |-> 0, books |-> p.books]) :
        o \in [order_status : OrderStatuses, sale_amount : {1000, 3500},
               discount_amount : {0, 5000}, books : SUBSET BookIds],
        p \in [order_status : {"to_ship", "pickup"}, books : {{}, {2}}] }

InitOrder ==
    /\ NoUpload /\ NoClean /\ NoHandler /\ NoSerializer /\ NoDatabase /\ NoProcess
    /\ NoEmployee /\ NoSheet /\ NoRow /\ NoImport
    /\ orders \in InitialOrders
    /\ books \in InitialBooks
    /\ today = 1
    /\ order_request = Pending
    /\ order_response = Pending

\* OrderCloseView.post for an order the database holds, asked by a user
\* with the permission change_order.
Close(pk) ==
    /\ pk \in DOMAIN orders
    /\ order_request' = [pk |-> pk, permitted |-> TRUE]
    /\ orders' = [orders EXCEPT ![pk] = completed_order(@, books, today)]
    /\ books' = _books_sold(books, orders[pk].books)
    /\ order_response' = [status |-> 302]
    /\ UNCHANGED today
    /\ UNCHANGED beyondOrder

\* The same for a pk the database holds no order of: Order.objects.get
\* raises DoesNotExist.
CloseMissing(pk) ==
    /\ pk \notin DOMAIN orders
    /\ order_request' = [pk |-> pk, permitted |-> TRUE]
    /\ order_response' = Raise("DoesNotExist")
    /\ UNCHANGED << orders, books, today >>
    /\ UNCHANGED beyondOrder

\* The same asked by a user without the permission: the mixins answer 403.
CloseDenied(pk) ==
    /\ order_request' = [pk |-> pk, permitted |-> FALSE]
    /\ order_response' = [status |-> 403]
    /\ UNCHANGED << orders, books, today >>
    /\ UNCHANGED beyondOrder

\* A day passes.
NextDay ==
    /\ today < MaxDay
    /\ today' = today + 1
    /\ UNCHANGED << orders, books, order_request, order_response >>
    /\ UNCHANGED beyondOrder

Pks == OrderIds \cup {3}

NextOrder ==
    \/ \E pk \in Pks : Close(pk)
    \/ \E pk \in Pks : CloseMissing(pk)
    \/ \E pk \in Pks : CloseDenied(pk)
    \/ NextDay

SpecOrder == InitOrder /\ [][NextOrder]_vars

\* C18: closing an order sets the status of every book of the order to
\* sold, sets delivery_pickup_date to the current date, and moves the
\* status of the order from to_ship to shipped and from pickup to
\* picked_up.
C18_Closing ==
    [][\A pk \in OrderIds :
          Close(pk) =>
              /\ \A b \in orders[pk].books : books'[b].book_status = "sold"
              /\ orders'[pk].delivery_pickup_date = Date(today)
              /\ orders[pk].order_status = "to_ship" => orders'[pk].order_status = "shipped"
              /\ orders[pk].order_status = "pickup" => orders'[pk].order_status = "picked_up"]_vars

\* An order with a book went from to be shipped to shipped and its books
\* are sold, on the day of the request.
C18_Witness ==
    /\ order_request # Pending /\ order_response = [status |-> 302]
    /\ orders[order_request.pk].order_status = "shipped"
    /\ orders[order_request.pk].delivery_pickup_date = Date(today)
    /\ orders[order_request.pk].books # {}
    /\ \A b \in orders[order_request.pk].books : books[b].book_status = "sold"

\* An order went from pickup to picked up.
C18_WitnessPickedUp ==
    /\ order_request # Pending /\ order_response = [status |-> 302]
    /\ orders[order_request.pk].order_status = "picked_up"
    /\ orders[order_request.pk].delivery_pickup_date = Date(today)
    /\ today > 1


(***************************************************************************)
(* The employees and their users (models.Employee, django's User).  A row  *)
(* of User is [username, first_name, last_name, email, groups], a row of   *)
(* Employee [first_name, last_name, email, group, user], user being the pk *)
(* of its user: the place of the row in `users`.  The username of a user   *)
(* and the email of an employee are unique in the database.                *)
(***************************************************************************)
\* f"{self.first_name.lower()}.{self.last_name.lower()}"
_base_username(first_name, last_name) == Lower(first_name) \o "." \o Lower(last_name)

\* The usernames of the rows but the one of the pk `but` (0 for none):
\* User.objects.filter(username=...).exclude(pk=...)
Usernames(rows, but) == {rows[i].username : i \in (1..Len(rows)) \ {but}}

RECURSIVE _unique_username(_, _, _, _)
\* while User.objects.filter(username=username).exists():
\*     username = f"{base_username}{counter}"; counter += 1
_unique_username(base_username, username, counter, taken) ==
    IF username \in taken
    THEN _unique_username(base_username, base_username \o ToString(counter), counter + 1, taken)
    ELSE username

\* _generate_username without the loop.
_generate_username_base(first_name, last_name, rows) == _base_username(first_name, last_name)

\* Employee._generate_username
_generate_username(first_name, last_name, rows) ==
    _unique_username(_base_username(first_name, last_name),
                     _base_username(first_name, last_name), 1, Usernames(rows, 0))

\* email or ""
OrEmpty(v) == IF Falsy(v) THEN Str("") ELSE v

\* User.objects.create_user: Rows(rows) with the new user, or
\* IntegrityError for a username a user has.
Rows(rows) == [rows |-> rows]
create_user(rows, username, first_name, last_name, email) ==
    IF username \in Usernames(rows, 0) THEN Raise("IntegrityError")
    ELSE Rows(Append1(rows, [username |-> username, first_name |-> first_name,
                             last_name |-> last_name, email |-> email, groups |-> {}]))

\* The username sync_user leaves: one with a dot becomes the unique name of
\* the pattern, the user himself left out of the search.
_synced_username(current_username, expected) ==
    IF Contains(current_username, ".") /\ current_username # expected
    THEN expected ELSE current_username

\* Employee.sync_user: the rows of User it leaves.
sync_user(self, rows) ==
    [rows EXCEPT ![self.user] =
        [username |-> _synced_username(
                          rows[self.user].username,
                          _unique_username(_base_username(self.first_name.str, self.last_name.str),
                                           _base_username(self.first_name.str, self.last_name.str),
                                           1, Usernames(rows, self.user))),
         first_name |-> self.first_name,
         last_name |-> self.last_name,
         email |-> OrEmpty(self.email),
         groups |-> {self.group}]]

\* What a call of create_with_user gives: the pk of the employee, or an
\* exception.
Created(pk) == [employee |-> pk]

\* The emails of the employees that have one.
Emails(rows) == {rows[i].email : i \in 1..Len(rows)} \ {NoneValue}

\* cls.objects.create(user=user, **kwargs): Employee.save inserts the row,
\* IntegrityError for an email an employee has, and calls sync_user.
_create_employee(tables, self) ==
    IF self.email \in Emails(tables.employees)
    THEN [tables EXCEPT !.created = Raise("IntegrityError")]
    ELSE [users |-> sync_user(self, tables.users),
          employees |-> Append1(tables.employees, self),
          created |-> Created(Len(tables.employees) + 1)]

\* create_with_user after create_user.
_with_user(tables, kwargs, user_rows) ==
    IF IsRaised(user_rows) THEN [tables EXCEPT !.created = user_rows]
    ELSE _create_employee([tables EXCEPT !.users = user_rows.rows],
                          [first_name |-> Get(kwargs, "first_name"),
                           last_name |-> Get(kwargs, "last_name"),
                           email |-> Get(kwargs, "email"),
                           group |-> Get(kwargs, "group"),
                           user |-> Len(user_rows.rows)])

\* Employee.create_with_user on the tables [users, employees]: the tables
\* it leaves and what it gives.
create_with_user(password, kwargs, tables) ==
    IF Falsy(password) THEN [tables EXCEPT !.created = Raise("ValueError")]
    ELSE IF Falsy(Get(kwargs, "first_name")) \/ Falsy(Get(kwargs, "last_name"))
    THEN [tables EXCEPT !.created = Raise("ValueError")]
    ELSE IF Falsy(Get(kwargs, "group")) THEN [tables EXCEPT !.created = Raise("ValueError")]
    ELSE _with_user(tables, kwargs,
                    create_user(tables.users,
                                _generate_username(kwargs.first_name.str, kwargs.last_name.str,
                                                   tables.users),
                                kwargs.first_name, kwargs.last_name,
                                OrEmpty(Get(kwargs, "email"))))

\* A user made with User.objects.create_user(username=..., password=...).
PlainUser(username) ==
    [username |-> username, first_name |-> Str(""), last_name |-> Str(""),
     email |-> Str(""), groups |-> {}]

\* The users that exist before the first call.
InitialUsers ==
    { <<>>, << PlainUser("john.doe") >>, << PlainUser("john.doe1") >>,
      << PlainUser("john.doe"), PlainUser("john.doe2") >>,
      << PlainUser("testuser"), PlainUser("john.doe"), PlainUser("john.doe1") >> }

\* A call; the arguments it leaves out are Missing.
Call(password, first_name, last_name, email, group) ==
    [password |-> password,
     kwargs |-> Present([first_name |-> first_name, last_name |-> last_name,
                         email |-> email, group |-> group])]

\* The calls: those with a password, both names and a group, and those
\* that lack one of them.
Calls ==
    { Call(Str("testpass123"), c.first_name, Str("Doe"), c.email, Str("Test Group")) :
        c \in [first_name : {Str("John"), Str("JOHN"), Str("Jane")},
               email : {Missing, Str("john.doe@example.com")}] }
    \cup { Call(Str(""), Str("John"), Str("Doe"), Missing, Str("Test Group")),
           Call(Str("testpass123"), Str(""), Str("Doe"), Missing, Str("Test Group")),
           Call(Str("testpass123"), Str("John"), Missing, Missing, Str("Test Group")),
           Call(Str("testpass123"), Str("John"), Str("Doe"), Missing, Missing) }

MaxUsers == 4

InitEmployee ==
    /\ NoUpload /\ NoClean /\ NoHandler /\ NoSerializer /\ NoDatabase /\ NoProcess /\ NoOrder
    /\ NoSheet /\ NoRow /\ NoImport
    /\ users \in InitialUsers
    /\ employees = <<>>
    /\ employee_call = Pending
    /\ employee_created = Pending

\* One call of Employee.create_with_user.
CreateWithUser(call) ==
    /\ Len(users) < MaxUsers
    /\ employee_call' = call
    /\ \E out \in {create_with_user(call.password, call.kwargs,
                                    [users |-> users, employees |-> employees,
                                     created |-> Pending])} :
           /\ users' = out.users
           /\ employees' = out.employees
           /\ employee_created' = out.created
    /\ UNCHANGED beyondEmployee

NextEmployee == \E call \in Calls : CreateWithUser(call)

SpecEmployee == InitEmployee /\ [][NextEmployee]_vars

\* The call has a password, both names and a group.
Complete(call) ==
    /\ ~Falsy(call.password)
    /\ ~Falsy(Get(call.kwargs, "first_name")) /\ ~Falsy(Get(call.kwargs, "last_name"))
    /\ ~Falsy(Get(call.kwargs, "group"))

\* '<first>.<last>' in lower case when no user has it, and else
\* '<first>.<last><k>' for the smallest k >= 1 that no user has.
FirstFree(base_username, taken) ==
    IF base_username \notin taken THEN base_username
    ELSE base_username
           \o ToString(CHOOSE k \in 1..(Cardinality(taken) + 1) :
                          /\ base_username \o ToString(k) \notin taken
                          /\ \A j \in 1..(k - 1) : base_username \o ToString(j) \in taken)

\* C19: create_with_user gives the new user the username '<first>.<last>'
\* in lower case when no user has it, and otherwise '<first>.<last><k>' for
\* the smallest integer k >= 1 that no user has; after any sequence of
\* calls no two users share a username.
C19_Usernames ==
    /\ [](\A i, j \in 1..Len(users) : users[i].username = users[j].username => i = j)
    /\ [][\A call \in Calls :
             (CreateWithUser(call) /\ Complete(call)) =>
                 /\ Len(users') = Len(users) + 1
                 /\ users'[Len(users')].username =
                        FirstFree(Lower(call.kwargs.first_name.str) \o "."
                                      \o Lower(call.kwargs.last_name.str),
                                  {users[i].username : i \in 1..Len(users)})]_vars

\* Two employees of the same names were created after a user of their
\* name: they are john.doe1 and john.doe2.
C19_Witness ==
    /\ employee_created # Pending /\ ~IsRaised(employee_created)
    /\ Len(employees) >= 2
    /\ \E i, j \in 1..Len(employees) :
           /\ i # j
           /\ Lower(employees[i].first_name.str) = Lower(employees[j].first_name.str)
           /\ users[employees[i].user].username = "john.doe1"
           /\ users[employees[j].user].username = "john.doe2"
    /\ \E u \in 1..Len(users) : users[u].username = "john.doe"

\* A new employee got the plain username.
C19_WitnessPlain ==
    /\ employee_created # Pending /\ ~IsRaised(employee_created)
    /\ users[employees[employee_created.employee].user].username = "jane.doe"


(***************************************************************************)
(* The classifier of the sheets of a workbook on its own                   *)
(* (UnifiedImportHandler._detect_sheet_type).                              *)
(***************************************************************************)
\* The names the columns of a sheet are taken from, in the order of the
\* sheet.
ColumnNames ==
    << "Title", "last_name", "first_name", "phone_number", "mailing_address",
       "group_name", "Customer Name", "notes" >>

MaxColumns == 3

\* The names of the places of I, in their order.
ColumnsAt(I) ==
    [k \in 1..Cardinality(I) |->
        ColumnNames[CHOOSE i \in I : Cardinality({j \in I : j < i}) = k - 1]]

\* The columns of the sheets: at most MaxColumns of the names.
SheetColumns ==
    { ColumnsAt(I) : I \in {J \in SUBSET (1..Len(ColumnNames)) : Cardinality(J) <= MaxColumns} }

InitSheet ==
    /\ NoUpload /\ NoClean /\ NoHandler /\ NoSerializer /\ NoDatabase /\ NoProcess /\ NoOrder
    /\ NoEmployee /\ NoRow /\ NoImport
    /\ in_columns \in SheetColumns
    /\ out_type = Pending

\* One call of _detect_sheet_type, with the confidence it logs.
DetectSheetType ==
    /\ out_type = Pending
    /\ out_type' = [type |-> _detect_sheet_type(in_columns),
                    confidence |-> _sheet_confidence(in_columns)]
    /\ UNCHANGED in_columns
    /\ UNCHANGED beyondSheet

NextSheet == DetectSheetType

SpecSheet == InitSheet /\ [][NextSheet]_vars

\* The number of the signature columns of the k-th type that occur in the
\* name of a column, the names taken in lower case.
Matches(k, names) ==
    Cardinality({c \in Range(patterns[k].cols) :
                    \E i \in 1..Len(names) : Contains(Lower(names[i]), c)})

\* The confidence of the k-th type is below that of the m-th.
Below(k, m, names) ==
    Matches(k, names) * Len(patterns[m].cols) < Matches(m, names) * Len(patterns[k].cols)

\* The k-th type has the greatest confidence and is the earliest that has.
Greatest(k, names) ==
    /\ \A m \in 1..Len(patterns) : ~Below(k, m, names)
    /\ \A m \in 1..(k - 1) : Below(m, k, names)

\* C21: the classifier of the sheets returns the type of the greatest
\* confidence, the matching signature columns of the type over the size of
\* its signature; of several types of the greatest confidence it returns
\* the earliest of author, book, customer, employee, order; it returns none
\* exactly when the confidence of every type is 0; and one more column
\* never lowers the confidence of a type.
C21_GreatestConfidence ==
    out_type # Pending =>
        /\ out_type.type = None <=> \A k \in 1..Len(patterns) : Matches(k, in_columns) = 0
        /\ out_type.type # None =>
               \E k \in 1..Len(patterns) :
                   /\ patterns[k].type = out_type.type
                   /\ patterns[k].type = DomainTypes[k]
                   /\ Greatest(k, in_columns)
                   /\ out_type.confidence = << Matches(k, in_columns), Len(patterns[k].cols) >>
        /\ \A k \in 1..Len(patterns) :
               \A c \in 1..Len(ColumnNames) :
                   Matches(k, Append(in_columns, ColumnNames[c])) >= Matches(k, in_columns)

\* Two columns are signature columns of the authors, the customers and the
\* employees alike: the sheet is one of authors.
C21_Witness ==
    /\ out_type # Pending
    /\ in_columns = << "last_name", "first_name" >>
    /\ out_type.type = "author"
    /\ ~Below(3, 1, in_columns) /\ ~Below(1, 3, in_columns)

\* No column is a signature column: the sheet is unclassified.
C21_WitnessUnclassified ==
    /\ out_type # Pending
    /\ in_columns = << "notes" >>
    /\ out_type.type = None

(***************************************************************************)
(* The containers of one type in a document (_extract_xml_data, pattern 1). *)
(***************************************************************************)
\* The records of all the containers of a plural tag, one after the other.
AllContainerRecords(root, plural_tag) ==
    JoinSeq([i \in 1..Len(DescendantsTagged(root, plural_tag)) |->
                [j \in 1..Len(ContainerLists(DescendantsTagged(root, plural_tag), plural_tag)[i]) |->
                    ContainerLists(DescendantsTagged(root, plural_tag), plural_tag)[i][j].record]],
            1, Len(DescendantsTagged(root, plural_tag)))

\* The entry of sheets_info for a type.
RowsOf(T) ==
    LET found == SelectSeq(result.sheets_info, LAMBDA info : info.type = T)
    IN  IF Len(found) = 0 THEN 0 ELSE found[1].rows

\* Two containers of a plural tag that both hold records.
TwoContainers(root, plural_tag) ==
    Cardinality({i \in 1..Len(DescendantsTagged(root, plural_tag)) :
                    Len(ContainerLists(DescendantsTagged(root, plural_tag), plural_tag)[i]) > 0}) >= 2

\* C22: after a document was parsed, the records of a type are the records
\* of every one of its plural containers, and the row count of the type is
\* their total: no container's records are lost.
C22_NoRecordLost ==
    (Returned /\ invoked = "_parse_xml" /\ HasData) =>
        \A k \in 1..Len(plural_tags) :
            Len(AllContainerRecords(file.body.tree, plural_tags[k])) > 0 =>
                /\ TypeRecords(Singular(plural_tags[k]))
                       = AllContainerRecords(file.body.tree, plural_tags[k])
                /\ RowsOf(Singular(plural_tags[k]))
                       = Len(AllContainerRecords(file.body.tree, plural_tags[k]))

\* A document with two containers of one type was parsed and the records of
\* the type are fewer than the records of its containers.
C22_ContainerLost ==
    /\ Returned /\ invoked = "_parse_xml" /\ HasData
    /\ \E k \in 1..Len(plural_tags) :
           /\ TwoContainers(file.body.tree, plural_tags[k])
           /\ Len(TypeRecords(Singular(plural_tags[k])))
                  < Len(AllContainerRecords(file.body.tree, plural_tags[k]))


(***************************************************************************)
(* Documents whose records no pattern classifies (_extract_xml_data,       *)
(* patterns 2 and 3).                                                      *)
(***************************************************************************)
\* No plural container of the document holds records, the tag of the root
\* names no domain type, the root has records and their fields name no type.
Unclassifiable(root) ==
    /\ \A k \in 1..Len(plural_tags) : Len(_container_records(root, plural_tags[k])) = 0
    /\ \A t \in Range(DomainTypes) : ~Contains(Lower(root.tag), t)
    /\ Len(ElementRecords(root.children)) > 0
    /\ _detect_record_type(DOMAIN ElementRecords(root.children)[1].record) = None

\* C23: after a document whose records cannot be classified was parsed, the
\* outcome accounts for the records of the root, by an entry of sheets_info
\* or by an entry of errors: it is not the outcome with no sheets_info, no
\* data_by_type and no errors.
C23_NotDroppedSilently ==
    (Returned /\ invoked = "_parse_xml" /\ HasData /\ Unclassifiable(file.body.tree)) =>
        \/ Len(result.sheets_info) > 0
        \/ Len(result.errors) > 0
        \/ DOMAIN result.data_by_type # {}


(***************************************************************************)
(* A call of NullValueProcessor.validate_row on a row and the field        *)
(* configurations of a type.                                               *)
(***************************************************************************)
\* The rows of the author and book sheets handed to the validation.
AuthorRows ==
    [last_name  : {NoneValue, Str(""), Str(" "), Str("Poe")},
     birth_year : {NoneValue, Str("1775"), Str("0"), Str("2101"), Str("abc"), Str("12.5"),
                   IntValue(2)},
     death_year : {NoneValue, Str("1817"), Str("abc")}]
BookRows ==
    [title : {NoneValue, Str("Emma")},
     cost  : {NoneValue, Str("10.50"), Str("-1"), Str("abc"), Str("n/a")},
     suggested_retail_price : {NoneValue, Str("19.99"), Str("abc")}]

InitRow ==
    /\ NoUpload /\ NoClean /\ NoHandler /\ NoSerializer /\ NoDatabase /\ NoProcess /\ NoOrder
    /\ NoEmployee /\ NoSheet /\ NoImport
    /\ \/ in_row \in AuthorRows /\ in_configs = configs.author
       \/ in_row \in BookRows /\ in_configs = configs.book
    /\ out_valid = Pending

\* is_valid, errors = NullValueProcessor.validate_row(row_data, field_configs)
ValidateRow ==
    /\ out_valid = Pending
    /\ \E out \in {validate_row(in_row, in_configs)} :
           out_valid' = IF IsRaised(out) THEN out
                        ELSE [valid |-> Len(out.errors) = 0, errors |-> out.errors]
    /\ UNCHANGED << in_row, in_configs >>
    /\ UNCHANGED beyondRow

NextRow == ValidateRow

SpecRow == InitRow /\ [][NextRow]_vars

\* The value of a field as it is handed in, trimmed when it is a text.
Trimmed(config) == clean_value(Get(in_row, config.field), "text")

\* The three kinds of violation of a field.
RequiredMissing(config) ==
    config.required /\ (Trimmed(config) = NoneValue \/ Trimmed(config) = Str(""))
Uncoercible(config) ==
    /\ Trimmed(config) # NoneValue /\ Trimmed(config) # Str("")
    /\ \/ config.type = "integer" /\ IsRaised(int(Trimmed(config)))
       \/ config.type = "decimal" /\ IsRaised(_decimal_of(Trimmed(config)))
OutOfBounds(config) ==
    /\ Trimmed(config) # NoneValue /\ Trimmed(config) # Str("")
    /\ ~Uncoercible(config)
    /\ config.type \in {"integer", "decimal"}
    /\ \/ "min" \in DOMAIN config
          /\ _less(clean_value(Trimmed(config), config.type), config.min) = BoolValue(TRUE)
       \/ "max" \in DOMAIN config
          /\ _greater(clean_value(Trimmed(config), config.type), config.max) = BoolValue(TRUE)
Violates(config) == RequiredMissing(config) \/ Uncoercible(config) \/ OutOfBounds(config)

\* The errors of the validation hold a message of the field.
Reported(config) ==
    \E i \in 1..Len(out_valid.errors) : StartsWith(out_valid.errors[i], config.field \o " ")

Validated == out_valid # Pending /\ ~IsRaised(out_valid)

\* C24: the validation reports an error of the field for every required
\* field that is missing or empty, every numeric field below its min or
\* above its max and every value that cannot be coerced to the type of its
\* field, required or not; the row is valid exactly when no field has one
\* of these violations.
C24_ViolationsReported ==
    Validated =>
        /\ \A k \in 1..Len(in_configs) : Violates(in_configs[k]) => Reported(in_configs[k])
        /\ out_valid.valid <=> \A k \in 1..Len(in_configs) : ~Violates(in_configs[k])

\* The part of C24 that needs no coercion failure: without a value that
\* cannot be coerced the violations are reported and decide the validity.
RowCoerces == \A k \in 1..Len(in_configs) : ~Uncoercible(in_configs[k])
C24_ReportedWhenCoercible ==
    (Validated /\ RowCoerces) =>
        /\ \A k \in 1..Len(in_configs) : Violates(in_configs[k]) => Reported(in_configs[k])
        /\ out_valid.valid <=> \A k \in 1..Len(in_configs) : ~Violates(in_configs[k])

\* A row with a value that cannot be coerced in a field that is not
\* required was validated as valid, with no error.
C24_UncoercibleAccepted ==
    /\ Validated /\ out_valid.valid
    /\ \E k \in 1..Len(in_configs) : ~in_configs[k].required /\ Uncoercible(in_configs[k])


(***************************************************************************)
(* clean_value with the declared type boolean.                             *)
(***************************************************************************)
\* The text handed in, trimmed and in lower case, is one of the true texts.
TrueText == IsStr(in_value) /\ Lower(Strip(in_value.str)) \in TrueTexts

\* bool(value) of what is handed in, a text trimmed.
Truthiness == IF IsStr(in_value) THEN Strip(in_value.str) # "" ELSE bool(in_value)

\* C25: for a boolean field clean_value gives True for a text that in lower
\* case is one of "true", "yes", "1", "t", "y", gives the truthiness of
\* every other value that is not null, and gives nothing but True, False or
\* None: never a text.
C25_BooleanOnly ==
    (Cleaned /\ in_field_type = "boolean") =>
        /\ TrueText => out_value = BoolValue(TRUE)
        /\ (in_value # NoneValue /\ ~NullLike /\ ~TrueText)
               => out_value = BoolValue(Truthiness)
        /\ out_value \in {BoolValue(TRUE), BoolValue(FALSE), NoneValue}

\* The part of C25 about the kind of the result alone.
C25_NeverText ==
    (Cleaned /\ in_field_type = "boolean") => ~IsStr(out_value)

\* What the code does: a text is True exactly when it is a true text, an
\* empty text stays a text, anything else has its truthiness.
C25_AsCoded ==
    (Cleaned /\ in_field_type = "boolean" /\ in_value # NoneValue /\ ~NullLike) =>
        out_value = IF IsStr(in_value)
                    THEN (IF Strip(in_value.str) = "" THEN Str("") ELSE BoolValue(TrueText))
                    ELSE BoolValue(bool(in_value))


(***************************************************************************)
(* The entries and the counters of ImportErrorHandler over its calls.      *)
(***************************************************************************)
\* Every entry of `before` is at its place in `after`, as it was.
EntriesKept(before, after) ==
    /\ Len(before) <= Len(after)
    /\ \A i \in 1..Len(before) : after[i] = before[i]

\* C26: a call of add_error, add_warning or record_success leaves every
\* entry of the errors and of the warnings at its place as it was and
\* lowers neither counter; clear gives the handler as it was made (no
\* error, no warning, both counters 0), and no other call removes an entry.
C26_AppendOnly ==
    /\ [][(AddError \/ AddWarning \/ RecordSuccess) =>
            /\ EntriesKept(error_handler.errors, error_handler'.errors)
            /\ EntriesKept(error_handler.warnings, error_handler'.warnings)
            /\ error_handler'.success_count >= error_handler.success_count
            /\ error_handler'.failed_count >= error_handler.failed_count]_vars
    /\ [][Clear =>
            /\ error_handler'.errors = <<>> /\ error_handler'.warnings = <<>>
            /\ error_handler'.success_count = 0 /\ error_handler'.failed_count = 0]_vars
    /\ [][(\/ Len(error_handler'.errors) < Len(error_handler.errors)
           \/ Len(error_handler'.warnings) < Len(error_handler.warnings)) => Clear]_vars

\* A handler that got a second error and a second warning after the first
\* ones, and a success.
C26_Witness ==
    /\ Len(error_handler.errors) = MaxEntries
    /\ Len(error_handler.warnings) = MaxEntries
    /\ error_handler.success_count > 0

\* C27: in every state of a handler the count of the failures is the number
\* of the errors, and total_processed of the summary is its successful plus
\* its failed.
C27_CountersConsistent ==
    /\ error_handler.failed_count = Len(error_handler.errors)
    /\ get_summary(error_handler).failed = Len(get_summary(error_handler).errors)
    /\ get_summary(error_handler).total_processed
           = get_summary(error_handler).successful + get_summary(error_handler).failed

\* A handler with an error, a warning and a success.
C27_Witness ==
    /\ Len(error_handler.errors) = 1
    /\ Len(error_handler.warnings) = 1
    /\ error_handler.success_count = 1
    /\ get_summary(error_handler).total_processed = 2


(***************************************************************************)
(* Closing an order that is closed, and the amount of an order over its    *)
(* closing (Order.completed_order, Order.save).                            *)
(***************************************************************************)
\* C28: closing an order that is shipped leaves it shipped and closing one
\* that is picked up leaves it picked up, however often it is closed.
C28_ClosedStable ==
    [][\A pk \in OrderIds :
          (Close(pk) /\ orders[pk].order_status \in {"shipped", "picked_up"}) =>
              orders'[pk].order_status = orders[pk].order_status]_vars

\* The amount Order.save computes for an order: the prices of its books
\* less the discount, not below 0.
Computed(order) == _amount(_sum(books, order.books), order.discount_amount)

\* C29: closing an order leaves its sale_amount as it is stored, also when
\* the stored amount, entered through the form, is not the prices of its
\* books less the discount.
C29_AmountKept ==
    [][\A pk \in OrderIds :
          (Close(pk) /\ orders[pk].sale_amount # Computed(orders[pk])) =>
              orders'[pk].sale_amount = orders[pk].sale_amount]_vars

\* The part of C29 the code keeps: an order without books keeps its amount,
\* an order with books gets the computed one.
C29_AmountAsCoded ==
    [][\A pk \in OrderIds :
          Close(pk) =>
              orders'[pk].sale_amount =
                  IF orders[pk].books = {} THEN orders[pk].sale_amount
                  ELSE Computed(orders[pk])]_vars


(***************************************************************************)
(* A call of _import_records_by_type on the records of a type and the      *)
(* mappings of a request.                                                  *)
(***************************************************************************)
\* The records handed in: those of the requests, one of blanks only and one
\* of an author without a last name.
ImportRecords ==
    AuthorRecords \cup BookRecords
        \cup { [last_name |-> Str(" "), first_name |-> Str("")],
               [first_name |-> Str("Jane")] }

\* The mappings handed in: those of the requests, none at all, and a list
\* in the place of the mappings of the authors.
ImportMappings ==
    (Mappings \ {Missing, NoneValue})
        \cup {EmptyDict, [author |-> ListValue(<< "last_name" >>), book |-> BookMappings]}

InitImport ==
    /\ NoUpload /\ NoClean /\ NoHandler /\ NoSerializer /\ NoDatabase /\ NoProcess /\ NoOrder
    /\ NoEmployee /\ NoSheet /\ NoRow
    /\ import_call \in [model_type : {"author", "book", "widget"},
                        records    : SeqsUpTo(ImportRecords, MaxRecords),
                        mappings   : ImportMappings]
    /\ import_out = Pending

\* results = _import_records_by_type(model_type, records, mappings)
ImportRecordsByType ==
    /\ import_out = Pending
    /\ \E out \in {_import_records_by_type(import_call.model_type, import_call.records,
                                            import_call.mappings, database)} :
           IF IsRaised(out)
           THEN import_out' = out /\ UNCHANGED database
           ELSE /\ import_out' = [imported |-> out.imported, skipped |-> out.skipped,
                                  errors |-> out.errors]
                /\ database' = out.database
    /\ UNCHANGED import_call
    /\ UNCHANGED beyondImport

NextImport == ImportRecordsByType

SpecImport == InitImport /\ [][NextImport]_vars

\* The call has returned its results.
Imported == import_out # Pending /\ ~IsRaised(import_out)

\* What the call gives for the i-th record alone, on an empty database.
Alone(i) ==
    _import_records_by_type(import_call.model_type, << import_call.records[i] >>,
                            import_call.mappings, EmptyDatabase)

\* The rows the database holds of the type of the call.
RowsOfType == IF import_call.model_type = "author" THEN database.authors ELSE database.books

\* C30: when _import_records_by_type returns, every record is counted once:
\* imported + skipped + len(errors) is the number of the records; and a
\* record that fails does not keep the others from being processed: every
\* record is imported, skipped or in error as it is when handed in alone,
\* and the imported ones are in the database.
C30_EveryRecordCounted ==
    Imported =>
        /\ import_out.imported + import_out.skipped + Len(import_out.errors)
               = Len(import_call.records)
        /\ import_out.imported
               = Cardinality({i \in 1..Len(import_call.records) : Alone(i).imported = 1})
        /\ import_out.skipped
               = Cardinality({i \in 1..Len(import_call.records) : Alone(i).skipped = 1})
        /\ Len(RowsOfType) = import_out.imported

\* A record the serializer rejects was followed by one that was imported.
C30_Witness ==
    /\ Imported
    /\ Len(import_call.records) = 2
    /\ Len(Alone(1).errors) = 1 /\ Alone(2).imported = 1
    /\ import_out.imported = 1 /\ Len(import_out.errors) = 1
    /\ Len(RowsOfType) = 1

\* Every record raised in the loop and is in the errors.
C30_WitnessException ==
    /\ Imported
    /\ Len(import_call.records) = 2
    /\ Len(import_out.errors) = 2
    /\ \A i \in 1..2 : "exception" \in DOMAIN import_out.errors[i]

\* A record of blanks was skipped and the next one imported.
C30_WitnessSkipped ==
    /\ Imported
    /\ import_out.skipped = 1 /\ import_out.imported = 1
    /\ Alone(1).skipped = 1


=============================================================================
